---- MODULE Spec2Model ----
(***************************************************************************)
(* Model of the zenoh-pico RPC binding generators (generator/*.py), of the *)
(* code they emit (server handlers, client calls, telemetry subscribers)   *)
(* and of the host transport (tools/rpc/zenoh_rpc_client.py).              *)
(*                                                                         *)
(* Text is modelled as a sequence of one-character strings, so that        *)
(* concatenation, splitting and comparison are computed, not assumed.      *)
(***************************************************************************)
EXTENDS Integers, Sequences, FiniteSets, TLC

VARIABLES
    \* --- generated server handler (gen_server_nanopb.py, emitted C++) ---
    pointers,     \* messages_with_pointers: the pointer registry of the run
    hmethod,      \* the (service, method) whose handler is running, or NoMethod
    hcode,        \* statements of the handler still to be executed
    hstatus,      \* the handler's local `status`
    hdecoded,     \* outcome of pb_decode: "none", "ok", "fail"
    hencoded,     \* outcome of pb_encode: "none", "ok", "fail"
    htrace,       \* steps performed so far: decode, invoke, encode, release
    hheld,        \* local messages that may own heap memory
    hreleased,    \* the variables passed to pb_release, in order
    hret,         \* the status returned to the channel, or "none"
    \* --- get_option_value (generator/util.py) ---
    ofields,      \* the fields of the options object, in serialization order
    okey,         \* field_number
    odata,        \* data = options_obj.SerializeToString()
    opos,         \* position
    oresult,      \* what the call produced: running, a value, None, or an exception
    olib,         \* whether the protobuf runtime defines decoder._DecodeVarint64
    \* --- ZenohRpcClient and the generated client call ---
    device_id,    \* ZenohRpcClient.device_id
    cset,         \* the device id last given to the constructor or set_device_id
    ccall,        \* the method whose generated call ran last, or NoMethod
    cdev,         \* the device id last set when that call started
    coutcome,     \* what the transport did for that call: replies or an exception
    cargs,        \* (service_name, method_name) the generated call passed to call()
    ckey,         \* key_expr given to session.get
    ctaken,       \* how many replies call() took from the reply stream
    cresult,      \* the RpcResult returned by call()
    cret,         \* what the generated call produced: a return value or an exception
    \* --- generated TelemetrySubscriber ---
    tdevice,      \* TelemetrySubscriber.device_id
    tsubs,        \* key expressions of the subscriptions it holds (_sub_ids)
    tdelivered,   \* samples the transport delivered to the current subscription
    tpassed,      \* payloads the user callback was called with
    tlogged,      \* number of errors the handler logged
    tescaped,     \* number of exceptions that left the handler
    \* --- the generator's environment: sidecar files ---
    fs_exists,    \* the sidecar files that exist, named from the current directory
    fs_lines,     \* the lines of the sidecar a run opens
    fs_read,      \* how reading it goes: to the end, or an exception on the way
    \* --- parse_options_file (gen_server_nanopb.py) ---
    sname,        \* proto_file_name
    spaths,       \* proto_paths
    sfile,        \* options_file: the candidate chosen, or None
    sregistry,    \* the set returned
    swarned,      \* whether the warning was printed
    sraised,      \* whether an exception left the function
    sdone,        \* whether the call has returned
    \* --- runs of the generator plugins ---
    grequest,     \* the CodeGeneratorRequest protoc hands to the plugins
    gprev,        \* what the run before the last one handed back
    gcur,         \* what the last run handed back
    \* --- one call of a generated register_handlers ---
    rservice,     \* the service whose server registers its handlers
    rnext,        \* the index of the next registration statement
    rsuccess,     \* the local `success`
    rattempts,    \* the register_handler calls made: key and outcome, in order
    rret,         \* what register_handlers returned: "none" while it runs
    \* --- subscriptions: a UI page, a LogSubscriber ---
    psubs,        \* ZenohSubscriberClient._subscribers: the declared subscribers
    pschema,      \* the schema file the page was generated for
    pdevice,      \* device_id_input.value
    pactive,      \* the page's active_subs
    pstage,       \* "none", "building" (create_ui runs), "ready", "failed"
    plast,        \* the most recent update_subscriptions run: what ran it, device id, raised
    lobj,         \* a LogSubscriber: device_id and _sub_id (0 is None)
    lcreated,     \* the subscribers that LogSubscriber declared
    llast,        \* the last call made on it
    \* --- one run of build.py ---
    bargs,        \* the parsed command line, and whether the app directory exists
    bpc,          \* where main is: "app", "proto", "build", "erase", "flash", "monitor", "done"
    bcalls,       \* the steps invoked so far, in order
    bexit,        \* the exit status: -1 while main runs
    \* --- execute actions of generated UI pages ---
    xpage,        \* the content of the service_gui.py the pages were built from
    xnames,       \* create_ui's local names once it has returned: name -> what it holds
    xclient,      \* zenoh_client.device_id: one client object for every page
    xtask         \* per execute action: where it is, what it read, wrote and called

serverVars == <<pointers, hmethod, hcode, hstatus, hdecoded, hencoded, htrace, hheld, hreleased, hret>>

optionVars == <<ofields, okey, odata, opos, oresult, olib>>

rpcVars == <<device_id, cset, ccall, cdev, coutcome, cargs, ckey, ctaken, cresult, cret>>

telemetryVars == <<tdevice, tsubs, tdelivered, tpassed, tlogged, tescaped>>

sidecarVars == <<fs_exists, fs_lines, fs_read, sname, spaths, sfile, sregistry, swarned, sraised, sdone>>

genVars == <<grequest, gprev, gcur>>

registerVars == <<rservice, rnext, rsuccess, rattempts, rret>>

subscriberVars == <<psubs, pschema, pdevice, pactive, pstage, plast, lobj, lcreated, llast>>

buildVars == <<bargs, bpc, bcalls, bexit>>

executeVars == <<xpage, xnames, xclient, xtask>>

vars == <<serverVars, optionVars, rpcVars, telemetryVars, sidecarVars, genVars, registerVars, subscriberVars, buildVars, executeVars>>

-----------------------------------------------------------------------------
(* Text                                                                    *)

S_DeviceService == <<"D", "e", "v", "i", "c", "e", "S", "e", "r", "v", "i", "c", "e">>
S_LogService == <<"L", "o", "g", "S", "e", "r", "v", "i", "c", "e">>
S_SetLed == <<"S", "e", "t", "L", "e", "d">>
S_EchoMalloc == <<"E", "c", "h", "o", "M", "a", "l", "l", "o", "c">>
S_StopSensorStream == <<"S", "t", "o", "p", "S", "e", "n", "s", "o", "r", "S", "t", "r", "e", "a", "m">>
S_package == <<"p", "r", "a", "c", "t", "i", "c", "e", ".", "r", "p", "c">>
T_LedRequest == <<".", "p", "r", "a", "c", "t", "i", "c", "e", ".", "r", "p", "c", ".", "L", "e", "d", "R", "e", "q", "u", "e", "s", "t">>
T_LedResponse == <<".", "p", "r", "a", "c", "t", "i", "c", "e", ".", "r", "p", "c", ".", "L", "e", "d", "R", "e", "s", "p", "o", "n", "s", "e">>
T_EchoRequestMalloc == <<".", "p", "r", "a", "c", "t", "i", "c", "e", ".", "r", "p", "c", ".", "E", "c", "h", "o", "R", "e", "q", "u", "e", "s", "t", "M", "a", "l", "l", "o", "c">>
T_EchoResponseMalloc == <<".", "p", "r", "a", "c", "t", "i", "c", "e", ".", "r", "p", "c", ".", "E", "c", "h", "o", "R", "e", "s", "p", "o", "n", "s", "e", "M", "a", "l", "l", "o", "c">>
T_Empty == <<".", "p", "r", "a", "c", "t", "i", "c", "e", ".", "r", "p", "c", ".", "E", "m", "p", "t", "y">>
U_Empty == <<".", "E", "m", "p", "t", "y">>
U_LedRequest == <<".", "L", "e", "d", "R", "e", "q", "u", "e", "s", "t">>
N_LedRequest == <<"L", "e", "d", "R", "e", "q", "u", "e", "s", "t">>
N_LedResponse == <<"L", "e", "d", "R", "e", "s", "p", "o", "n", "s", "e">>
N_EchoRequestMalloc == <<"E", "c", "h", "o", "R", "e", "q", "u", "e", "s", "t", "M", "a", "l", "l", "o", "c">>
N_EchoResponseMalloc == <<"E", "c", "h", "o", "R", "e", "s", "p", "o", "n", "s", "e", "M", "a", "l", "l", "o", "c">>
N_Empty == <<"E", "m", "p", "t", "y">>
S_fields == <<"_", "f", "i", "e", "l", "d", "s">>
S_Empty == <<"E", "m", "p", "t", "y">>
S_rpc == <<"r", "p", "c">>
S_dev1 == <<"d", "e", "v", "1">>
S_dev2 == <<"d", "e", "v", "2">>
S_ReplyError == <<"R", "e", "p", "l", "y", " ", "e", "r", "r", "o", "r", ":", " ">>
S_NoReply == <<"N", "o", " ", "r", "e", "p", "l", "y", " ", "r", "e", "c", "e", "i", "v", "e", "d">>
S_busy == <<"b", "u", "s", "y">>
S_closed == <<"s", "e", "s", "s", "i", "o", "n", " ", "c", "l", "o", "s", "e", "d">>
S_SensorTelemetry == <<"S", "e", "n", "s", "o", "r", "T", "e", "l", "e", "m", "e", "t", "r", "y">>
S_TelemetryTopic == <<"/", "t", "e", "l", "e", "m", "e", "t", "r", "y", "/", "s", "e", "n", "s", "o", "r">>
S_KeyExample == <<"d", "e", "v", "1", "/", "r", "p", "c", "/", "D", "e", "v", "i", "c", "e", "S", "e", "r", "v", "i", "c", "e", "/", "S", "e", "t", "L", "e", "d">>
S_KeyExampleNoDevice == <<"r", "p", "c", "/", "D", "e", "v", "i", "c", "e", "S", "e", "r", "v", "i", "c", "e", "/", "S", "e", "t", "L", "e", "d">>

\* Python's None where a str is optional: no text has a four-character element.
PyNone == <<"None">>

Range(seq) == {seq[i] : i \in 1..Len(seq)}

\* str.split(sep) for a one-character separator: the segments between separators.
RECURSIVE Split(_, _)
Split(s, sep) ==
    IF \A i \in 1..Len(s) : s[i] # sep
    THEN <<s>>
    ELSE LET i == CHOOSE k \in 1..Len(s) : s[k] = sep /\ \A j \in 1..(k - 1) : s[j] # sep
         IN  <<SubSeq(s, 1, i - 1)>> \o Split(SubSeq(s, i + 1, Len(s)), sep)

\* s.split(".")[-1]
LastSegment(s) == LET parts == Split(s, ".") IN parts[Len(parts)]

\* str.replace(old, new) for one-character old and new.
ReplaceChar(s, old, new) == [i \in 1..Len(s) |-> IF s[i] = old THEN new ELSE s[i]]

\* str.endswith(suffix)
EndsWith(s, suffix) ==
    /\ Len(suffix) <= Len(s)
    /\ SubSeq(s, Len(s) - Len(suffix) + 1, Len(s)) = suffix

-----------------------------------------------------------------------------
(* Schemas: the proto files a generation request may carry.                *)

Method(name, input, output) == [name |-> name, input_type |-> input, output_type |-> output]

\* The repository's own service (tools/rpc/service_client.py is its client).
SchemaDevice ==
    [name |-> "service.proto", package |-> S_package,
     service |-> << [name |-> S_DeviceService,
                     method |-> << Method(S_SetLed, T_LedRequest, T_LedResponse),
                                   Method(S_EchoMalloc, T_EchoRequestMalloc, T_EchoResponseMalloc),
                                   Method(S_StopSensorStream, T_Empty, T_Empty) >>] >>]

\* A file without package whose two services declare the same method name.
SchemaTwo ==
    [name |-> "two.proto", package |-> <<>>,
     service |-> << [name |-> S_DeviceService,
                     method |-> << Method(S_SetLed, U_LedRequest, U_Empty) >>],
                    [name |-> S_LogService,
                     method |-> << Method(S_SetLed, U_Empty, U_LedRequest) >>] >>]

Schemas == {SchemaDevice, SchemaTwo}

SchemaNamed(n) == CHOOSE f \in Schemas : f.name = n

\* Every method of the schemas, as (file name, service index, method index).
MethodRefs ==
    UNION {UNION {{[file |-> f.name, s |-> i, m |-> j] : j \in 1..Len(f.service[i].method)} :
                    i \in 1..Len(f.service)} : f \in Schemas}

FileOf(r) == SchemaNamed(r.file)
ServiceOf(r) == FileOf(r).service[r.s]
MethodOf(r) == ServiceOf(r).method[r.m]

\* Message names a sidecar may mark as pointer-bearing.
PointerCandidates == {N_EchoRequestMalloc, N_EchoResponseMalloc, N_LedRequest, N_Empty}

-----------------------------------------------------------------------------
(* Server emitter: the handler emitted for one method.                     *)

\* get_nanopb_type_name
get_nanopb_type_name(proto_package, msg_name) ==
    IF proto_package = <<>> THEN msg_name
    ELSE ReplaceChar(proto_package, ".", "_") \o <<"_">> \o msg_name

Stmt(op, var, type, value, body) ==
    [op |-> op, var |-> var, type |-> type, value |-> value, body |-> body]

ReleaseStmt(type, var) == Stmt("release", var, type \o S_fields, "", <<>>)
ReturnStmt(value) == Stmt("return", "", <<>>, value, <<>>)

req_type(package, method) == get_nanopb_type_name(package, LastSegment(method.input_type))
res_type(package, method) == get_nanopb_type_name(package, LastSegment(method.output_type))

req_needs_release(method, registry) == LastSegment(method.input_type) \in registry
res_needs_release(method, registry) == LastSegment(method.output_type) \in registry

\* "Decode request": declare the request, decode, return DECODE_ERROR on failure.
EmitDecodeNoReturn(package, method) ==
    << Stmt("decl", "request", req_type(package, method), "", <<>>),
       Stmt("if_not_decode", "request", req_type(package, method) \o S_fields, "", <<>>) >>

EmitDecode(package, method) ==
    << Stmt("decl", "request", req_type(package, method), "", <<>>),
       Stmt("if_not_decode", "request", req_type(package, method) \o S_fields, "",
            << ReturnStmt("DECODE_ERROR") >>) >>

\* "Call implementation": declare the response, call impl_, propagate a non-OK status.
EmitCallFallThrough(package, method, registry) ==
    << Stmt("decl", "response", res_type(package, method), "", <<>>),
       Stmt("call_impl", "", method.name, "", <<>>),
       Stmt("if_status_not_ok", "", <<>>, "",
            IF req_needs_release(method, registry)
            THEN << ReleaseStmt(req_type(package, method), "request") >>
            ELSE <<>>) >>

EmitCall(package, method, registry) ==
    << Stmt("decl", "response", res_type(package, method), "", <<>>),
       Stmt("call_impl", "", method.name, "", <<>>),
       Stmt("if_status_not_ok", "", <<>>, "",
            (IF req_needs_release(method, registry)
             THEN << ReleaseStmt(req_type(package, method), "request") >>
             ELSE <<>>)
            \o << ReturnStmt("status") >>) >>

\* The pb_release lines emitted for the request and the response, as applicable.
EmitReleases(package, method, registry) ==
    (IF req_needs_release(method, registry)
     THEN << ReleaseStmt(req_type(package, method), "request") >> ELSE <<>>)
    \o
    (IF res_needs_release(method, registry)
     THEN << ReleaseStmt(res_type(package, method), "response") >> ELSE <<>>)

\* "Encode response": encode, on failure release and return ENCODE_ERROR.
EmitEncodeNoReturn(package, method, registry) ==
    << Stmt("if_not_encode", "response", res_type(package, method) \o S_fields, "",
            EmitReleases(package, method, registry)) >>

\* "Encode response": encode, on failure release and return ENCODE_ERROR.
EmitEncode(package, method, registry) ==
    << Stmt("if_not_encode", "response", res_type(package, method) \o S_fields, "",
            EmitReleases(package, method, registry) \o << ReturnStmt("ENCODE_ERROR") >>) >>

\* "Release allocated memory if needed", then return OK.
EmitTail(package, method, registry) ==
    (IF req_needs_release(method, registry) \/ res_needs_release(method, registry)
     THEN EmitReleases(package, method, registry) ELSE <<>>)
    \o << ReturnStmt("OK") >>

\* The body of handle_<method>.
HandlerBody(package, method, registry) ==
    EmitDecode(package, method) \o EmitCall(package, method, registry)
    \o EmitEncode(package, method, registry) \o EmitTail(package, method, registry)

-----------------------------------------------------------------------------
(* Execution of an emitted handler.                                        *)

NoMethod == [file |-> "none", s |-> 0, m |-> 0]

\* Values impl_.<Method>() may return.
RpcStatuses == {"OK", "DECODE_ERROR", "ENCODE_ERROR", "INTERNAL_ERROR"}

Running == hcode # <<>>
HandlerDone == hmethod # NoMethod /\ hcode = <<>>

\* The channel invokes the handler registered for a method.
Invoke ==
    /\ ~Running
    /\ \E r \in MethodRefs :
          /\ hmethod' = r
          /\ hcode' = HandlerBody(FileOf(r).package, MethodOf(r), pointers)
    /\ hstatus' = "unset"
    /\ hdecoded' = "none"
    /\ hencoded' = "none"
    /\ htrace' = <<>>
    /\ hheld' = {}
    /\ hreleased' = <<>>
    /\ hret' = "none"
    /\ UNCHANGED pointers
    /\ UNCHANGED <<optionVars, rpcVars, telemetryVars, sidecarVars, genVars, registerVars, subscriberVars, buildVars, executeVars>>

\* `<type> request = <type>_init_zero;` / `<type> response = <type>_init_zero;`
ExecDecl ==
    /\ Running /\ Head(hcode).op = "decl"
    /\ hcode' = Tail(hcode)
    /\ UNCHANGED <<pointers, hmethod, hstatus, hdecoded, hencoded, htrace, hheld, hreleased, hret>>
    /\ UNCHANGED <<optionVars, rpcVars, telemetryVars, sidecarVars, genVars, registerVars, subscriberVars, buildVars, executeVars>>

\* `if (!pb_decode(...)) { ... }`.  A failed pb_decode leaves nothing allocated
\* in the request; a successful one may have allocated its pointer fields.
ExecDecode ==
    /\ Running /\ Head(hcode).op = "if_not_decode"
    /\ \E ok \in BOOLEAN :
          /\ hdecoded' = IF ok THEN "ok" ELSE "fail"
          /\ hcode' = IF ok THEN Tail(hcode) ELSE Head(hcode).body \o Tail(hcode)
          /\ hheld' = IF ok THEN hheld \cup {Head(hcode).var} ELSE hheld
    /\ htrace' = Append(htrace, "decode")
    /\ UNCHANGED <<pointers, hmethod, hstatus, hencoded, hreleased, hret>>
    /\ UNCHANGED <<optionVars, rpcVars, telemetryVars, sidecarVars, genVars, registerVars, subscriberVars, buildVars, executeVars>>

\* `status = impl_.<Method>(request, &response);`  The implementation may
\* have filled pointer fields of the response whatever status it returns.
ExecCallImpl ==
    /\ Running /\ Head(hcode).op = "call_impl"
    /\ \E st \in RpcStatuses : hstatus' = st
    /\ hheld' = hheld \cup {"response"}
    /\ htrace' = Append(htrace, "invoke")
    /\ hcode' = Tail(hcode)
    /\ UNCHANGED <<pointers, hmethod, hdecoded, hencoded, hreleased, hret>>
    /\ UNCHANGED <<optionVars, rpcVars, telemetryVars, sidecarVars, genVars, registerVars, subscriberVars, buildVars, executeVars>>

\* `if (status != zenoh_rpc::RpcStatus::OK) { ... }`
ExecIfStatus ==
    /\ Running /\ Head(hcode).op = "if_status_not_ok"
    /\ hcode' = IF hstatus # "OK" THEN Head(hcode).body \o Tail(hcode) ELSE Tail(hcode)
    /\ UNCHANGED <<pointers, hmethod, hstatus, hdecoded, hencoded, htrace, hheld, hreleased, hret>>
    /\ UNCHANGED <<optionVars, rpcVars, telemetryVars, sidecarVars, genVars, registerVars, subscriberVars, buildVars, executeVars>>

\* `if (!pb_encode(...)) { ... }`
ExecEncode ==
    /\ Running /\ Head(hcode).op = "if_not_encode"
    /\ \E ok \in BOOLEAN :
          /\ hencoded' = IF ok THEN "ok" ELSE "fail"
          /\ hcode' = IF ok THEN Tail(hcode) ELSE Head(hcode).body \o Tail(hcode)
    /\ htrace' = Append(htrace, "encode")
    /\ UNCHANGED <<pointers, hmethod, hstatus, hdecoded, hheld, hreleased, hret>>
    /\ UNCHANGED <<optionVars, rpcVars, telemetryVars, sidecarVars, genVars, registerVars, subscriberVars, buildVars, executeVars>>

\* `pb_release(<type>_fields, &<var>);`
ExecRelease ==
    /\ Running /\ Head(hcode).op = "release"
    /\ hreleased' = Append(hreleased, Head(hcode).var)
    /\ htrace' = Append(htrace, "release")
    /\ hcode' = Tail(hcode)
    /\ UNCHANGED <<pointers, hmethod, hstatus, hdecoded, hencoded, hheld, hret>>
    /\ UNCHANGED <<optionVars, rpcVars, telemetryVars, sidecarVars, genVars, registerVars, subscriberVars, buildVars, executeVars>>

\* `return <value>;` leaves the function: nothing after it is executed.
ExecReturn ==
    /\ Running /\ Head(hcode).op = "return"
    /\ hret' = IF Head(hcode).value = "status" THEN hstatus ELSE Head(hcode).value
    /\ hcode' = <<>>
    /\ UNCHANGED <<pointers, hmethod, hstatus, hdecoded, hencoded, htrace, hheld, hreleased>>
    /\ UNCHANGED <<optionVars, rpcVars, telemetryVars, sidecarVars, genVars, registerVars, subscriberVars, buildVars, executeVars>>

-----------------------------------------------------------------------------
(* Raw option extractor: get_option_value (generator/util.py).             *)
(* Bytes are the integers 0..255; positions are Python's 0-based offsets.  *)

RECURSIVE Pow2(_)
Pow2(n) == IF n = 0 THEN 1 ELSE 2 * Pow2(n - 1)

\* Base-128 varint encoding, as SerializeToString writes tags, lengths and values.
RECURSIVE EncodeVarint(_)
EncodeVarint(n) ==
    IF n < 128 THEN <<n>> ELSE <<(n % 128) + 128>> \o EncodeVarint(n \div 128)

\* One field of the options object on the wire: tag, then the payload its
\* wire type prescribes.
SerializeField(f) ==
    EncodeVarint(f.number * 8 + f.wire_type)
    \o (CASE f.wire_type = 0 -> EncodeVarint(f.value)
          [] f.wire_type = 2 -> EncodeVarint(Len(f.payload)) \o f.payload
          [] OTHER -> f.payload)

\* options_obj.SerializeToString()
RECURSIVE SerializeToString(_)
SerializeToString(fields) ==
    IF fields = <<>> THEN <<>>
    ELSE SerializeField(Head(fields)) \o SerializeToString(Tail(fields))

\* decoder._DecodeVarint32 / _DecodeVarint64: read 7 bits per byte until a byte
\* without the continuation bit; reading past the buffer raises IndexError.
\* The result mask (2^32 - 1, 2^64 - 1) changes nothing below 2^28, and every
\* varint of the inputs below is at most three bytes long.
RECURSIVE DecodeVarintFrom(_, _, _, _)
DecodeVarintFrom(data, pos, result, shift) ==
    IF pos >= Len(data)
    THEN [error |-> "IndexError", value |-> 0, position |-> pos]
    ELSE LET b == data[pos + 1]
             r == result + (b % 128) * Pow2(shift)
         IN  IF b < 128
             THEN [error |-> "none", value |-> r, position |-> pos + 1]
             ELSE IF shift + 7 >= 64
                  THEN [error |-> "DecodeError", value |-> 0, position |-> pos + 1]
                  ELSE DecodeVarintFrom(data, pos + 1, r, shift + 7)

DecodeVarint(data, pos) == DecodeVarintFrom(data, pos, 0, 0)

\* data[a : b]
Slice(data, a, b) ==
    LET hi == IF b > Len(data) THEN Len(data) ELSE b
    IN  IF a >= hi THEN <<>> ELSE SubSeq(data, a + 1, hi)

\* The characters of the 7-bit codes the option values use.
AsciiChar(b) ==
    CASE b = 47 -> "/"
      [] b = 88 -> "X"
      [] b = 89 -> "Y"
      [] b = 90 -> "Z"
      [] OTHER -> "?"

\* What a call is doing or has produced.
OptRunning == [kind |-> "running", value |-> <<>>, error |-> "none"]
OptNone == [kind |-> "none", value |-> <<>>, error |-> "none"]
OptStr(text) == [kind |-> "str", value |-> text, error |-> "none"]
OptRaised(e) == [kind |-> "raised", value |-> <<>>, error |-> e]

\* bytes.decode("utf-8"), for buffers of 7-bit codes; a byte of 128 or more
\* that starts no valid sequence raises.
Utf8Decode(bytes) ==
    IF \E i \in 1..Len(bytes) : bytes[i] >= 128
    THEN OptRaised("UnicodeDecodeError")
    ELSE OptStr([i \in 1..Len(bytes) |-> AsciiChar(bytes[i])])

\* The target field was found (lines 41-50).
MatchField(data, position, wire_type) ==
    IF wire_type = 2
    THEN LET len == DecodeVarint(data, position)
         IN  IF len.error # "none"
             THEN [position |-> position, result |-> OptRaised(len.error)]
             ELSE [position |-> len.position,
                   result |-> Utf8Decode(Slice(data, len.position, len.position + len.value))]
    ELSE [position |-> position, result |-> OptNone]

\* Not the target: skip to the next tag according to the wire type (lines 53-64).
SkipField(data, position, wire_type, has64) ==
    CASE wire_type = 0 ->
            IF ~has64
            THEN [position |-> position, result |-> OptRaised("AttributeError")]
            ELSE LET v == DecodeVarint(data, position)
                 IN  IF v.error # "none"
                     THEN [position |-> position, result |-> OptRaised(v.error)]
                     ELSE [position |-> v.position, result |-> OptRunning]
      [] wire_type = 1 -> [position |-> position + 8, result |-> OptRunning]
      [] wire_type = 2 ->
            LET len == DecodeVarint(data, position)
            IN  IF len.error # "none"
                THEN [position |-> position, result |-> OptRaised(len.error)]
                ELSE [position |-> len.position + len.value, result |-> OptRunning]
      [] wire_type = 5 -> [position |-> position + 4, result |-> OptRunning]
      [] OTHER -> [position |-> position, result |-> OptRunning]

\* One pass through the body of `while position < size` (lines 34-64).
ScanIteration(data, position, field_number, has64) ==
    LET tag == DecodeVarint(data, position)
        current_field_number == tag.value \div 8
        wire_type == tag.value % 8
    IN  IF tag.error # "none"
        THEN [position |-> position, result |-> OptRaised(tag.error)]
        ELSE IF current_field_number = field_number
             THEN MatchField(data, tag.position, wire_type)
             ELSE SkipField(data, tag.position, wire_type, has64)

\* --- inputs ---

Varint(number, value) == [number |-> number, wire_type |-> 0, value |-> value, payload |-> <<>>]
Bytes(number, payload) == [number |-> number, wire_type |-> 2, value |-> 0, payload |-> payload]
Fixed(number, wire_type, payload) == [number |-> number, wire_type |-> wire_type, value |-> 0, payload |-> payload]

DefaultKey == 50001
OtherKey == DefaultKey + 1
NestNumber == DefaultKey + 2

\* `option (zenoh_key) = "X"` written at 50001 as a length-delimited field, and
\* the bytes of that same field embedded in the payload of another field.
KeyFieldX == Bytes(DefaultKey, <<88>>)
EmbeddedKeyField == Bytes(NestNumber, SerializeField(Bytes(DefaultKey, <<90>>)))

\* The fields an options object may carry.
OptionFields ==
    { KeyFieldX,
      Bytes(DefaultKey, <<47, 89>>),
      Varint(DefaultKey, 1),
      Varint(3, 1),
      Varint(11, 300),
      Fixed(7, 1, <<138, 181, 24, 1, 90, 0, 0, 0>>),
      Fixed(9, 5, <<138, 181, 24, 0>>),
      EmbeddedKeyField }

FieldsMax == 3

OptionInputs == UNION {[1..n -> OptionFields] : n \in 0..FieldsMax}

OptionKeys == {DefaultKey, OtherKey}

\* --- the call ---

OptionIdle ==
    /\ ofields = <<>>
    /\ okey = DefaultKey
    /\ odata = <<>>
    /\ opos = 0
    /\ oresult = OptNone
    /\ olib = TRUE

\* while position < size: one iteration.
OptIterate ==
    /\ oresult = OptRunning
    /\ opos < Len(odata)
    /\ LET it == ScanIteration(odata, opos, okey, olib)
       IN  /\ opos' = it.position
           /\ oresult' = it.result
    /\ UNCHANGED <<ofields, okey, odata, olib>>
    /\ UNCHANGED <<serverVars, rpcVars, telemetryVars, sidecarVars, genVars, registerVars, subscriberVars, buildVars, executeVars>>

\* The buffer is exhausted without a match: return None (line 66).
OptReturnNone ==
    /\ oresult = OptRunning
    /\ opos >= Len(odata)
    /\ oresult' = OptNone
    /\ UNCHANGED <<ofields, okey, odata, opos, olib>>
    /\ UNCHANGED <<serverVars, rpcVars, telemetryVars, sidecarVars, genVars, registerVars, subscriberVars, buildVars, executeVars>>

-----------------------------------------------------------------------------
(* ZenohRpcClient (tools/rpc/zenoh_rpc_client.py).                         *)

RpcResult(success, data, error) == [success |-> success, data |-> data, error |-> error]

\* The key expression call() queries (lines 44-47).
KeyExprNoDevice(dev, service_name, method_name) ==
    S_rpc \o <<"/">> \o service_name \o <<"/">> \o method_name

KeyExpr(dev, service_name, method_name) ==
    IF dev # <<>> /\ dev # PyNone
    THEN dev \o <<"/">> \o S_rpc \o <<"/">> \o service_name \o <<"/">> \o method_name
    ELSE S_rpc \o <<"/">> \o service_name \o <<"/">> \o method_name

\* One reply: `if reply.ok: return ... else: return ...` (lines 53-56).
ReplyResult(reply) ==
    IF reply.ok
    THEN RpcResult(TRUE, reply.payload, PyNone)
    ELSE RpcResult(FALSE, <<>>, S_ReplyError \o reply.err)

RECURSIVE ReplyLoopLastWins(_)
ReplyLoopLastWins(replies) ==
    IF replies = <<>>
    THEN [result |-> RpcResult(FALSE, <<>>, S_NoReply), taken |-> 0]
    ELSE IF Len(replies) = 1
         THEN [result |-> ReplyResult(replies[1]), taken |-> 1]
         ELSE LET rest == ReplyLoopLastWins(Tail(replies))
              IN  [result |-> rest.result, taken |-> rest.taken + 1]

\* `for reply in replies:` returns inside its first iteration; with no reply
\* the loop ends and line 58 returns "No reply received".
ReplyLoop(replies) ==
    IF replies = <<>>
    THEN [result |-> RpcResult(FALSE, <<>>, S_NoReply), taken |-> 0]
    ELSE [result |-> ReplyResult(Head(replies)), taken |-> 1]

\* ZenohRpcClient.call: the key, then session.get and the replies inside
\* try/except Exception (lines 42-62).
RpcCall(dev, service_name, method_name, outcome) ==
    LET key_expr == KeyExpr(dev, service_name, method_name)
    IN  IF outcome.raises
        THEN [key_expr |-> key_expr, taken |-> 0,
              result |-> RpcResult(FALSE, <<>>, outcome.error)]
        ELSE [key_expr |-> key_expr, taken |-> ReplyLoop(outcome.replies).taken,
              result |-> ReplyLoop(outcome.replies).result]

-----------------------------------------------------------------------------
(* Client emitter and the call it emits (generator/gen_client_python.py).  *)

\* What the emitter fixes in the text of one call (lines 64-117).
ClientMethodClassName(service, method) ==
    [service_name |-> service.name \o <<"C", "l", "i", "e", "n", "t">>,
     method_name |-> method.name,
     req_cls |-> LastSegment(method.input_type),
     is_empty |-> EndsWith(method.output_type, S_Empty),
     resp_cls |-> LastSegment(method.output_type)]

ClientMethod(service, method) ==
    [service_name |-> service.name,
     method_name |-> method.name,
     req_cls |-> LastSegment(method.input_type),
     is_empty |-> EndsWith(method.output_type, S_Empty),
     resp_cls |-> LastSegment(method.output_type)]

\* Message.ParseFromString: the bytes must be a sequence of whole fields of
\* wire types 0, 1, 2 and 5; anything else raises DecodeError.
RECURSIVE ParsesFrom(_, _)
ParsesFrom(data, pos) ==
    IF pos >= Len(data) THEN pos = Len(data)
    ELSE LET tag == DecodeVarint(data, pos)
             wire_type == tag.value % 8
             len == DecodeVarint(data, tag.position)
         IN  /\ tag.error = "none"
             /\ tag.value \div 8 > 0
             /\ CASE wire_type = 0 -> len.error = "none" /\ ParsesFrom(data, len.position)
                  [] wire_type = 1 -> ParsesFrom(data, tag.position + 8)
                  [] wire_type = 2 -> len.error = "none" /\ ParsesFrom(data, len.position + len.value)
                  [] wire_type = 5 -> ParsesFrom(data, tag.position + 4)
                  [] OTHER -> FALSE

RpcResponse(success, error) == [success |-> success, error |-> error]
NoPayload == [cls |-> PyNone, data |-> <<>>]

Returned(arity, response, payload) ==
    [kind |-> "returned", arity |-> arity, response |-> response, payload |-> payload, error |-> "none"]
Raised(error) ==
    [kind |-> "raised", arity |-> 0, response |-> RpcResponse(FALSE, PyNone), payload |-> NoPayload, error |-> error]
NotCalled ==
    [kind |-> "idle", arity |-> 0, response |-> RpcResponse(FALSE, PyNone), payload |-> NoPayload, error |-> "none"]

\* The lines after `result = self.rpc_client.call(...)` (lines 108-117).
AfterCall(cm, result) ==
    IF cm.is_empty
    THEN IF result.success
         THEN Returned(1, RpcResponse(TRUE, PyNone), NoPayload)
         ELSE Returned(1, RpcResponse(FALSE, result.error), NoPayload)
    ELSE IF result.success
         THEN IF ParsesFrom(result.data, 0)
              THEN Returned(2, RpcResponse(TRUE, PyNone), [cls |-> cm.resp_cls, data |-> result.data])
              ELSE Raised("DecodeError")
         ELSE Returned(2, RpcResponse(FALSE, result.error), NoPayload)

\* --- inputs ---

DeviceIds == {<<>>, S_dev1, S_dev2}

OkReply(payload) == [ok |-> TRUE, payload |-> payload, err |-> <<>>]
ErrReply(err) == [ok |-> FALSE, payload |-> <<>>, err |-> err]

\* A well-formed message body (field 1 = 1) and a truncated one.
PayloadGood == <<8, 1>>
PayloadBad == <<8>>

Replies == {OkReply(PayloadGood), OkReply(<<>>), OkReply(PayloadBad), ErrReply(S_busy)}

RepliesMax == 2

ReplyStreams == UNION {[1..n -> Replies] : n \in 0..RepliesMax}

TransportOutcomes ==
    {[raises |-> FALSE, error |-> <<>>, replies |-> rs] : rs \in ReplyStreams}
    \cup {[raises |-> TRUE, error |-> S_closed, replies |-> <<>>]}

NoOutcome == [raises |-> FALSE, error |-> <<>>, replies |-> <<>>]

\* --- operations ---

RpcIdle ==
    /\ device_id = <<>>
    /\ cset = <<>>
    /\ ccall = NoMethod
    /\ cdev = <<>>
    /\ coutcome = NoOutcome
    /\ cargs = <<>>
    /\ ckey = <<>>
    /\ ctaken = 0
    /\ cresult = RpcResult(FALSE, <<>>, PyNone)
    /\ cret = NotCalled

\* ZenohRpcClient.set_device_id
SetDeviceId ==
    /\ \E d \in DeviceIds :
          /\ device_id' = d
          /\ cset' = d
    /\ UNCHANGED <<ccall, cdev, coutcome, cargs, ckey, ctaken, cresult, cret>>
    /\ UNCHANGED <<serverVars, optionVars, telemetryVars, sidecarVars, genVars, registerVars, subscriberVars, buildVars, executeVars>>

\* One generated call, start to end: build the request, call the transport,
\* turn the RpcResult into the return value.
GeneratedCall ==
    /\ \E r \in MethodRefs :
        \E cm \in {ClientMethod(ServiceOf(r), MethodOf(r))} :
        \E outcome \in TransportOutcomes :
        \E rpc \in {RpcCall(device_id, cm.service_name, cm.method_name, outcome)} :
              /\ ccall' = r
              /\ cdev' = cset
              /\ coutcome' = outcome
              /\ cargs' = <<cm.service_name, cm.method_name>>
              /\ ckey' = rpc.key_expr
              /\ ctaken' = rpc.taken
              /\ cresult' = rpc.result
              /\ cret' = AfterCall(cm, rpc.result)
    /\ UNCHANGED <<device_id, cset>>
    /\ UNCHANGED <<serverVars, optionVars, telemetryVars, sidecarVars, genVars, registerVars, subscriberVars, buildVars, executeVars>>

-----------------------------------------------------------------------------
(* Generated TelemetrySubscriber (gen_client_python.py lines 123-172,      *)
(* tools/rpc/service_client.py lines 80-110).                              *)

\* What the emitter fixes in the text of one subscribe_<name> handler: the
\* message class it parses, and the try / except Exception around its body.
EmitTelemetryHandlerUnguarded(msg_name) == [cls |-> msg_name, guarded |-> FALSE]

EmitTelemetryHandler(msg_name) == [cls |-> msg_name, guarded |-> TRUE]

\* One run of the emitted handler on the bytes of a sample.  ParseFromString
\* raises on malformed bytes; the user callback may raise.
RunTelemetryHandler(h, data, callback_raises) ==
    LET parsed == ParsesFrom(data, 0)
        raised == ~parsed \/ callback_raises
    IN  [called |-> parsed,
         logged |-> h.guarded /\ raised,
         escaped |-> ~h.guarded /\ raised]

TelemetryPayloads == {PayloadGood, <<>>, PayloadBad}

DeliveriesMax == 4

TelemetryIdle ==
    /\ tdevice = <<>>
    /\ tsubs = <<>>
    /\ tdelivered = <<>>
    /\ tpassed = <<>>
    /\ tlogged = 0
    /\ tescaped = 0

\* subscribe_sensor(callback): declare the subscription, remember its id.
SubscribeSensor ==
    /\ tsubs = <<>>
    /\ tsubs' = Append(tsubs, tdevice \o S_TelemetryTopic)
    /\ tdelivered' = <<>>
    /\ tpassed' = <<>>
    /\ tlogged' = 0
    /\ tescaped' = 0
    /\ UNCHANGED tdevice
    /\ UNCHANGED <<serverVars, optionVars, rpcVars, sidecarVars, genVars, registerVars, subscriberVars, buildVars, executeVars>>

\* The transport delivers a sample: ZenohSubscriberClient's wrapper hands its
\* bytes to the emitted handler.
DeliverSample ==
    /\ tsubs # <<>>
    /\ Len(tdelivered) < DeliveriesMax
    /\ \E data \in TelemetryPayloads, callback_raises \in BOOLEAN :
          LET run == RunTelemetryHandler(EmitTelemetryHandler(S_SensorTelemetry), data, callback_raises)
          IN  /\ tdelivered' = Append(tdelivered, [data |-> data, callback_raises |-> callback_raises])
              /\ tpassed' = IF run.called THEN Append(tpassed, data) ELSE tpassed
              /\ tlogged' = IF run.logged THEN tlogged + 1 ELSE tlogged
              /\ tescaped' = IF run.escaped THEN tescaped + 1 ELSE tescaped
    /\ UNCHANGED <<tdevice, tsubs>>
    /\ UNCHANGED <<serverVars, optionVars, rpcVars, sidecarVars, genVars, registerVars, subscriberVars, buildVars, executeVars>>

\* unsubscribe_all(): undeclare every subscription and forget the ids.
TelemetryUnsubscribeAll ==
    /\ tsubs # <<>>
    /\ tsubs' = <<>>
    /\ tdelivered' = <<>>
    /\ tpassed' = <<>>
    /\ tlogged' = 0
    /\ tescaped' = 0
    /\ UNCHANGED tdevice
    /\ UNCHANGED <<serverVars, optionVars, rpcVars, sidecarVars, genVars, registerVars, subscriberVars, buildVars, executeVars>>

-----------------------------------------------------------------------------
(* Pointer-field sidecar: parse_options_file (gen_server_nanopb.py).       *)

S_dotproto == <<".", "p", "r", "o", "t", "o">>
S_dotoptions == <<".", "o", "p", "t", "i", "o", "n", "s">>
S_FT_POINTER == <<"t", "y", "p", "e", ":", "F", "T", "_", "P", "O", "I", "N", "T", "E", "R">>
L_Msg == <<"p", "k", "g", ".", "M", "s", "g", ".", "f", "i", "e", "l", "d", " ", "t", "y", "p", "e", ":", "F", "T", "_", "P", "O", "I", "N", "T", "E", "R">>
L_AltMsg == <<"a", "l", "t", ".", "M", "s", "g", ".", "d", "a", "t", "a", " ", "t", "y", "p", "e", ":", "F", "T", "_", "P", "O", "I", "N", "T", "E", "R">>
L_Comment == <<"#", " ", "p", "k", "g", ".", "L", "e", "d", ".", "o", "n", " ", "t", "y", "p", "e", ":", "F", "T", "_", "P", "O", "I", "N", "T", "E", "R">>
L_Blank == <<" ", " ">>
L_MaxSize == <<"p", "k", "g", ".", "L", "e", "d", ".", "n", "a", "m", "e", " ", "m", "a", "x", "_", "s", "i", "z", "e", ":", "8">>
L_Wildcard == <<"*", " ", "t", "y", "p", "e", ":", "F", "T", "_", "P", "O", "I", "N", "T", "E", "R">>
N_Msg == <<"M", "s", "g">>
N_Led == <<"L", "e", "d">>
N_Echo == <<"E", "c", "h", "o">>
P_service == <<"s", "e", "r", "v", "i", "c", "e", ".", "p", "r", "o", "t", "o">>
P_rel == <<"p", "r", "o", "t", "o", "/", "s", "e", "r", "v", "i", "c", "e", ".", "p", "r", "o", "t", "o">>
P_abs == <<"/", "s", "r", "c", "/", "s", "e", "r", "v", "i", "c", "e", ".", "p", "r", "o", "t", "o">>
D_inc == <<"i", "n", "c">>
D_dot == <<".">>
D_lib == <<"/", "l", "i", "b">>
F_service == <<"s", "e", "r", "v", "i", "c", "e", ".", "o", "p", "t", "i", "o", "n", "s">>
F_rel == <<"p", "r", "o", "t", "o", "/", "s", "e", "r", "v", "i", "c", "e", ".", "o", "p", "t", "i", "o", "n", "s">>
F_abs == <<"/", "s", "r", "c", "/", "s", "e", "r", "v", "i", "c", "e", ".", "o", "p", "t", "i", "o", "n", "s">>
F_inc == <<"i", "n", "c", "/", "s", "e", "r", "v", "i", "c", "e", ".", "o", "p", "t", "i", "o", "n", "s">>
F_increl == <<"i", "n", "c", "/", "p", "r", "o", "t", "o", "/", "s", "e", "r", "v", "i", "c", "e", ".", "o", "p", "t", "i", "o", "n", "s">>
F_lib == <<"/", "l", "i", "b", "/", "s", "e", "r", "v", "i", "c", "e", ".", "o", "p", "t", "i", "o", "n", "s">>
F_librel == <<"/", "l", "i", "b", "/", "p", "r", "o", "t", "o", "/", "s", "e", "r", "v", "i", "c", "e", ".", "o", "p", "t", "i", "o", "n", "s">>
F_other == <<"o", "t", "h", "e", "r", ".", "o", "p", "t", "i", "o", "n", "s">>
L_Indented == <<" ", " ">> \o <<"p", "k", "g", ".", "E", "c", "h", "o", ".", "m", "s", "g", "\t">> \o S_FT_POINTER \o <<" ">>

Whitespace == {" ", "\t"}

\* str.lstrip(), str.rstrip(), str.strip()
RECURSIVE LStrip(_)
LStrip(s) == IF s # <<>> /\ Head(s) \in Whitespace THEN LStrip(Tail(s)) ELSE s

RECURSIVE RStrip(_)
RStrip(s) ==
    IF s # <<>> /\ s[Len(s)] \in Whitespace THEN RStrip(SubSeq(s, 1, Len(s) - 1)) ELSE s

Strip(s) == RStrip(LStrip(s))

\* str.startswith(prefix)
StartsWith(s, prefix) ==
    /\ Len(prefix) <= Len(s)
    /\ SubSeq(s, 1, Len(prefix)) = prefix

\* `sub in s`
Contains(s, sub) == \E i \in 1..(Len(s) - Len(sub) + 1) : SubSeq(s, i, i + Len(sub) - 1) = sub

\* str.split() without argument: the maximal runs of non-whitespace characters.
RECURSIVE SplitWhitespace(_)
SplitWhitespace(s) ==
    LET t == LStrip(s)
    IN  IF t = <<>> THEN <<>>
        ELSE LET n == CHOOSE k \in 1..Len(t) :
                          /\ \A j \in 1..k : t[j] \notin Whitespace
                          /\ (k = Len(t) \/ t[k + 1] \in Whitespace)
             IN  <<SubSeq(t, 1, n)>> \o SplitWhitespace(SubSeq(t, n + 1, Len(t)))

\* str.replace(old, new): every non-overlapping occurrence, left to right.
RECURSIVE Replace(_, _, _)
Replace(s, old, new) ==
    IF Len(s) < Len(old) THEN s
    ELSE IF SubSeq(s, 1, Len(old)) = old
         THEN new \o Replace(SubSeq(s, Len(old) + 1, Len(s)), old, new)
         ELSE <<Head(s)>> \o Replace(Tail(s), old, new)

\* --- os.path (posix) ---

isabs(p) == StartsWith(p, <<"/">>)

\* Index of the last "/" of p, 0 if there is none.
LastSlash(p) ==
    IF \E i \in 1..Len(p) : p[i] = "/"
    THEN CHOOSE i \in 1..Len(p) : p[i] = "/" /\ \A j \in (i + 1)..Len(p) : p[j] # "/"
    ELSE 0

basename(p) == SubSeq(p, LastSlash(p) + 1, Len(p))

RECURSIVE RStripSlash(_)
RStripSlash(s) ==
    IF s # <<>> /\ s[Len(s)] = "/" THEN RStripSlash(SubSeq(s, 1, Len(s) - 1)) ELSE s

dirname(p) ==
    LET head == SubSeq(p, 1, LastSlash(p))
    IN  IF head # <<>> /\ (\E i \in 1..Len(head) : head[i] # "/") THEN RStripSlash(head) ELSE head

join(a, b) ==
    IF isabs(b) THEN b
    ELSE IF a = <<>> \/ a[Len(a)] = "/" THEN a \o b
    ELSE a \o <<"/">> \o b

\* The file a path names, seen from the current directory: "./x" is "x".
RECURSIVE Normalize(_)
Normalize(p) == IF StartsWith(p, <<".", "/">>) THEN Normalize(SubSeq(p, 3, Len(p))) ELSE p

\* os.path.exists(p) in a file system holding the files `existing`.
exists(existing, p) == Normalize(p) \in existing

\* --- the search for the sidecar (lines 28-63) ---

\* Lines 47-57, with the full relative path and the bare filename swapped.
RECURSIVE SearchPathsBareFirst(_, _, _)
SearchPathsBareFirst(existing, proto_paths, options_filename) ==
    IF proto_paths = <<>> THEN PyNone
    ELSE LET path == Head(proto_paths)
             full == join(path, options_filename)
             bare == join(path, basename(options_filename))
         IN  IF exists(existing, bare) THEN bare
             ELSE IF exists(existing, full) THEN full
             ELSE SearchPathsBareFirst(existing, Tail(proto_paths), options_filename)

\* Lines 47-57: per search-path entry, the full relative path, then the bare
\* filename; the loop breaks at the first candidate that exists.
RECURSIVE SearchPaths(_, _, _)
SearchPaths(existing, proto_paths, options_filename) ==
    IF proto_paths = <<>> THEN PyNone
    ELSE LET path == Head(proto_paths)
             full == join(path, options_filename)
             bare == join(path, basename(options_filename))
         IN  IF exists(existing, full) THEN full
             ELSE IF exists(existing, bare) THEN bare
             ELSE SearchPaths(existing, Tail(proto_paths), options_filename)

\* Lines 28-63: options_file, or None when no candidate exists.
FindOptionsFile(existing, proto_file_name, proto_paths) ==
    LET options_filename == Replace(proto_file_name, S_dotproto, S_dotoptions)
        proto_dir == dirname(proto_file_name)
        sibling == join(proto_dir, basename(options_filename))
        bare == basename(options_filename)
        first == IF isabs(proto_file_name) /\ exists(existing, options_filename)
                 THEN options_filename ELSE PyNone
        second == IF first # PyNone THEN first
                  ELSE IF proto_dir # <<>> /\ exists(existing, sibling) THEN sibling
                  ELSE PyNone
        third == IF second # PyNone THEN second
                 ELSE SearchPaths(existing, proto_paths, options_filename)
    IN  IF third # PyNone THEN third
        ELSE IF exists(existing, bare) THEN bare
        ELSE PyNone

\* --- reading the sidecar (lines 68-90) ---

\* Lines 71-83 with the last dotted segment taken instead of the one before it.
ParseLineLastSegment(raw) ==
    LET line == Strip(raw)
        parts == SplitWhitespace(line)
        segments == Split(parts[1], ".")
    IN  IF line = <<>> \/ StartsWith(line, <<"#">>) THEN {}
        ELSE IF ~Contains(line, S_FT_POINTER) THEN {}
        ELSE IF Len(parts) < 2 THEN {}
        ELSE IF ~Contains(parts[1], <<".">>) THEN {}
        ELSE IF segments[Len(segments)] = <<>> THEN {}
        ELSE {segments[Len(segments)]}

\* Lines 71-83: what one line of the sidecar adds to messages_with_pointers.
ParseLine(raw) ==
    LET line == Strip(raw)
        parts == SplitWhitespace(line)
        segments == Split(parts[1], ".")
    IN  IF line = <<>> \/ StartsWith(line, <<"#">>) THEN {}
        ELSE IF ~Contains(line, S_FT_POINTER) THEN {}
        ELSE IF Len(parts) < 2 THEN {}
        ELSE IF ~Contains(parts[1], <<".">>) THEN {}
        ELSE IF segments[Len(segments) - 1] = <<>> THEN {}
        ELSE {segments[Len(segments) - 1]}

\* messages_with_pointers after the first n lines went through the loop body.
RECURSIVE ParseLines(_, _)
ParseLines(lines, n) ==
    IF n = 0 THEN {} ELSE ParseLines(lines, n - 1) \cup ParseLine(lines[n])

\* How reading the opened file goes: to the end, or an exception (from open()
\* or from the iteration) after `after` lines were handed to the loop body.
ReadsToEnd == [fails |-> FALSE, after |-> 0]
ReadFails(after) == [fails |-> TRUE, after |-> after]

\* parse_options_file: the file used, the registry returned, whether the
\* warning was printed, whether an exception left the function.
parse_options_file(existing, lines, read, proto_file_name, proto_paths) ==
    LET options_file == FindOptionsFile(existing, proto_file_name, proto_paths)
    IN  IF options_file = PyNone
        THEN [options_file |-> PyNone, registry |-> {}, warned |-> FALSE, raised |-> FALSE]
        ELSE IF read.fails
        THEN [options_file |-> options_file, registry |-> ParseLines(lines, read.after),
              warned |-> TRUE, raised |-> FALSE]
        ELSE [options_file |-> options_file, registry |-> ParseLines(lines, Len(lines)),
              warned |-> FALSE, raised |-> FALSE]

\* --- inputs ---

SchemaPaths == {P_service, P_rel, P_abs}

\* proto_paths as generate_code builds it: the -I entries, then ".".
SearchPathLists == {<<D_dot>>, <<D_inc, D_dot>>, <<D_lib, D_inc, D_dot>>}

\* Files that may exist, named from the current directory.
SidecarFiles == {F_service, F_rel, F_abs, F_inc, F_increl, F_lib, F_librel, F_other}

ExistingMax == 2

FileSystems == {fs \in SUBSET SidecarFiles : Cardinality(fs) <= ExistingMax}

SidecarLines == {L_Msg, L_AltMsg, L_Comment, L_Blank, L_MaxSize, L_Wildcard, L_Indented}

LinesMax == 2

SidecarTexts == UNION {[1..n -> SidecarLines] : n \in 0..LinesMax}

Reads(lines) == {ReadsToEnd} \cup {ReadFails(k) : k \in 0..Len(lines)}

\* --- operations ---

SidecarIdle ==
    /\ fs_exists = {}
    /\ fs_lines = <<>>
    /\ fs_read = ReadsToEnd
    /\ sname = <<>>
    /\ spaths = <<>>
    /\ sfile = PyNone
    /\ sregistry = {}
    /\ swarned = FALSE
    /\ sraised = FALSE
    /\ sdone = FALSE

\* One call of parse_options_file(sname, spaths) in the file system of the run.
ParseOptionsFile ==
    /\ ~sdone
    /\ \E r \in {parse_options_file(fs_exists, fs_lines, fs_read, sname, spaths)} :
          /\ sfile' = r.options_file
          /\ sregistry' = r.registry
          /\ swarned' = r.warned
          /\ sraised' = r.raised
    /\ sdone' = TRUE
    /\ UNCHANGED <<fs_exists, fs_lines, fs_read, sname, spaths>>
    /\ UNCHANGED <<serverVars, optionVars, rpcVars, telemetryVars, genVars, registerVars, subscriberVars, buildVars, executeVars>>

-----------------------------------------------------------------------------
(* generator/util.py: to_snake_case, find_zenoh_key, get_option_value.     *)

S_zenoh_key == <<"z", "e", "n", "o", "h", "_", "k", "e", "y">>
S_device_zenoh_key == <<"d", "e", "v", "i", "c", "e", "_", "z", "e", "n", "o", "h", "_", "k", "e", "y">>
S_zenoh_key_v2 == <<"z", "e", "n", "o", "h", "_", "k", "e", "y", "_", "v", "2">>

UpperCase == <<"A", "B", "C", "D", "E", "F", "G", "H", "I", "J", "K", "L", "M", "N", "O", "P", "Q", "R", "S", "T", "U", "V", "W", "X", "Y", "Z">>
LowerCase == <<"a", "b", "c", "d", "e", "f", "g", "h", "i", "j", "k", "l", "m", "n", "o", "p", "q", "r", "s", "t", "u", "v", "w", "x", "y", "z">>
Digits == <<"0", "1", "2", "3", "4", "5", "6", "7", "8", "9">>

IsUpper(c) == c \in Range(UpperCase)
IsLower(c) == c \in Range(LowerCase)
IsDigit(c) == c \in Range(Digits)

\* str.lower() and str.upper() on ASCII text
LowerChar(c) == IF IsUpper(c) THEN LowerCase[CHOOSE i \in 1..Len(UpperCase) : UpperCase[i] = c] ELSE c
UpperChar(c) == IF IsLower(c) THEN UpperCase[CHOOSE i \in 1..Len(LowerCase) : LowerCase[i] = c] ELSE c
Lower(s) == [i \in 1..Len(s) |-> LowerChar(s[i])]
Upper(s) == [i \in 1..Len(s) |-> UpperChar(s[i])]

\* The end of the longest run of lower-case letters starting at position i.
RECURSIVE LowerRunEnd(_, _)
LowerRunEnd(s, i) == IF i < Len(s) /\ IsLower(s[i + 1]) THEN LowerRunEnd(s, i + 1) ELSE i

\* re.sub("(.)([A-Z][a-z]+)", r"\1_\2", s), scanning from position i: the
\* leftmost match is any character, a capital and at least one lower-case
\* letter (greedy); matches do not overlap.
RECURSIVE SubWordStart(_, _)
SubWordStart(s, i) ==
    IF i > Len(s) THEN <<>>
    ELSE IF i + 2 <= Len(s) /\ IsUpper(s[i + 1]) /\ IsLower(s[i + 2])
         THEN LET j == LowerRunEnd(s, i + 2)
              IN  <<s[i], "_">> \o SubSeq(s, i + 1, j) \o SubWordStart(s, j + 1)
         ELSE <<s[i]>> \o SubWordStart(s, i + 1)

\* re.sub("([a-z0-9])([A-Z])", r"\1_\2", s), scanning from position i.
RECURSIVE SubLowerUpper(_, _)
SubLowerUpper(s, i) ==
    IF i > Len(s) THEN <<>>
    ELSE IF i + 1 <= Len(s) /\ (IsLower(s[i]) \/ IsDigit(s[i])) /\ IsUpper(s[i + 1])
         THEN <<s[i], "_", s[i + 1]>> \o SubLowerUpper(s, i + 2)
         ELSE <<s[i]>> \o SubLowerUpper(s, i + 1)

to_snake_case(name) == Lower(SubLowerUpper(SubWordStart(name, 1), 1))

\* find_zenoh_key looking only at the first schema file of the request.
RECURSIVE FindZenohKeyFrom(_, _, _)
FindZenohKeyFrom(proto_file, i, j) ==
    IF i > Len(proto_file) THEN DefaultKey
    ELSE IF j > Len(proto_file[i].extension) THEN FindZenohKeyFrom(proto_file, i + 1, 1)
    ELSE IF EndsWith(proto_file[i].extension[j].name, S_zenoh_key)
         THEN proto_file[i].extension[j].number
         ELSE FindZenohKeyFrom(proto_file, i, j + 1)

find_zenoh_key_first_file(request) ==
    FindZenohKeyFrom(SubSeq(request.proto_file, 1, 1), 1, 1)

\* find_zenoh_key: the number of the first extension, in file order, whose
\* name ends with "zenoh_key"; 50001 when there is none.
find_zenoh_key(request) == FindZenohKeyFrom(request.proto_file, 1, 1)

\* get_option_value as a function: the loop of lines 33-64 run to its end.
RECURSIVE ScanFrom(_, _, _, _)
ScanFrom(data, position, field_number, has64) ==
    IF position >= Len(data) THEN OptNone
    ELSE LET it == ScanIteration(data, position, field_number, has64)
         IN  IF it.result = OptRunning
             THEN ScanFrom(data, it.position, field_number, has64)
             ELSE it.result

get_option_value(options, field_number, has64) ==
    ScanFrom(SerializeToString(options), 0, field_number, has64)

-----------------------------------------------------------------------------
(* Generation requests: CodeGeneratorRequest and its descriptors.          *)

P_two == <<"t", "w", "o", ".", "p", "r", "o", "t", "o">>
P_options == <<"z", "e", "n", "o", "h", "_", "o", "p", "t", "i", "o", "n", "s", ".", "p", "r", "o", "t", "o">>
P_missing == <<"m", "i", "s", "s", "i", "n", "g", ".", "p", "r", "o", "t", "o">>
S_google == <<"g", "o", "o", "g", "l", "e", "/", "p", "r", "o", "t", "o", "b", "u", "f">>
A_on == <<"o", "n">>
A_msg == <<"m", "s", "g">>
A_temperature == <<"t", "e", "m", "p", "e", "r", "a", "t", "u", "r", "e">>
L_EchoReq == <<"p", "r", "a", "c", "t", "i", "c", "e", ".", "r", "p", "c", ".", "E", "c", "h", "o", "R", "e", "q", "u", "e", "s", "t", "M", "a", "l", "l", "o", "c", ".", "m", "s", "g", " ", "t", "y", "p", "e", ":", "F", "T", "_", "P", "O", "I", "N", "T", "E", "R">>
Q_lib == <<"-", "I", " ", "/", "l", "i", "b", " ", "-", "I", "=", "i", "n", "c">>

Field(name, type) == [name |-> name, type |-> type]
Message(name, field, options) == [name |-> name, field |-> field, options |-> options]
Extension(name, number) == [name |-> name, number |-> number]
ProtoFile(name, package, message_type, service, extension) ==
    [name |-> name, package |-> package, message_type |-> message_type,
     service |-> service, extension |-> extension]

\* service.proto: the messages of the repository's service; the telemetry
\* message carries the given options.
DeviceFile(name, telemetry_options, extension) ==
    ProtoFile(name, S_package,
              << Message(N_LedRequest, <<Field(A_on, "TYPE_BOOL")>>, <<>>),
                 Message(N_LedResponse, <<Field(A_on, "TYPE_BOOL")>>, <<>>),
                 Message(N_EchoRequestMalloc, <<Field(A_msg, "TYPE_BYTES")>>, <<>>),
                 Message(N_EchoResponseMalloc, <<Field(A_msg, "TYPE_BYTES")>>, <<>>),
                 Message(N_Empty, <<>>, <<>>),
                 Message(S_SensorTelemetry, <<Field(A_temperature, "TYPE_FLOAT")>>, telemetry_options) >>,
              SchemaDevice.service, extension)

\* two.proto: no package, no telemetry; it declares LedRequest but not Empty,
\* so the input type of LogService.SetLed resolves to no message of the file.
TwoFile ==
    ProtoFile(P_two, <<>>,
              << Message(N_LedRequest, <<Field(A_on, "TYPE_BOOL")>>, <<>>) >>,
              SchemaTwo.service, <<>>)

\* A file that only declares extensions of MessageOptions.
OptionsFile(extension) == ProtoFile(P_options, S_package, <<>>, <<>>, extension)

\* Options a telemetry message may carry: none; the key at 50001 and another
\* value at 50002; `deprecated = true` (field 3, varint) before the key.
TelemetryOptionSets ==
    { <<>>,
      <<KeyFieldX, Bytes(OtherKey, <<47, 89>>)>>,
      <<Varint(3, 1), KeyFieldX>> }

\* Extensions the schema set may declare besides the service: none; zenoh_key
\* at 50002; a name that only contains the suffix, then one that ends with it.
ExtensionSets ==
    { <<>>,
      <<Extension(S_zenoh_key, OtherKey)>>,
      <<Extension(S_zenoh_key_v2, NestNumber), Extension(S_device_zenoh_key, OtherKey)>> }

Request(file_to_generate, proto_file, parameter) ==
    [file_to_generate |-> file_to_generate, proto_file |-> proto_file, parameter |-> parameter]

\* The schema files protoc hands over, dependencies first.
WithOptionsFile(extension, files) ==
    IF extension = <<>> THEN files ELSE <<OptionsFile(extension)>> \o files

Requests ==
    UNION {
      { Request({P_service}, WithOptionsFile(e, <<DeviceFile(P_service, o, <<>>)>>), q),
        Request({P_rel, P_two}, WithOptionsFile(e, <<DeviceFile(P_rel, o, <<>>), TwoFile>>), q),
        Request({P_two}, <<TwoFile, DeviceFile(P_service, o, e)>>, q),
        Request({P_service, P_missing}, WithOptionsFile(e, <<DeviceFile(P_service, o, <<>>)>>), q) } :
      o \in TelemetryOptionSets, e \in ExtensionSets, q \in {<<>>, Q_lib} }
-----------------------------------------------------------------------------
(* The emitters: generate_code of gen_client_python.py, gen_server_nanopb.py *)
(* and gen_nicegui.py, and the plugin's main.  A generated unit is a name   *)
(* and the content the emitter decides: which definitions it holds and what *)
(* each is built from.                                                      *)

S_Client == <<"C", "l", "i", "e", "n", "t">>
S_Telemetry == <<"T", "e", "l", "e", "m", "e", "t", "r", "y">>
S_slash_telemetry == <<"/", "t", "e", "l", "e", "m", "e", "t", "r", "y", "/">>
S_subscribe == <<"s", "u", "b", "s", "c", "r", "i", "b", "e", "_">>
S_client_py == <<"_", "c", "l", "i", "e", "n", "t", ".", "p", "y">>
S_server_h == <<"_", "s", "e", "r", "v", "e", "r", ".", "h">>
S_server_cpp == <<"_", "s", "e", "r", "v", "e", "r", ".", "c", "p", "p">>
S_service_gui == <<"s", "e", "r", "v", "i", "c", "e", "_", "g", "u", "i", ".", "p", "y">>
S_ZENOH_KEY == <<"_", "Z", "E", "N", "O", "H", "_", "K", "E", "Y">>
S_password == <<"p", "a", "s", "s", "w", "o", "r", "d">>
S_client == <<"_", "c", "l", "i", "e", "n", "t">>
S_server == <<"_", "s", "e", "r", "v", "e", "r">>
S_pbh == <<".", "p", "b", ".", "h">>
S_pb2 == <<"_", "p", "b", "2">>

\* TYPE_MAPPING.get(type, default)
TYPE_MAPPING(type, default) ==
    CASE type \in {"TYPE_DOUBLE", "TYPE_FLOAT"} -> "float"
      [] type \in {"TYPE_INT32", "TYPE_INT64", "TYPE_UINT32", "TYPE_UINT64"} -> "int"
      [] type = "TYPE_BOOL" -> "bool"
      [] type = "TYPE_STRING" -> "str"
      [] type = "TYPE_BYTES" -> "bytes"
      [] OTHER -> default

\* The key get_message_map gives a message: ".<package>.<name>" or ".<name>".
FullName(proto_file, msg) ==
    IF proto_file.package # <<>>
    THEN <<".">> \o proto_file.package \o <<".">> \o msg.name
    ELSE <<".">> \o msg.name

\* msg_map.get(type_name): the last message of the file with that full name,
\* as a sequence of one element, or the empty sequence for None.
MessageMapGet(proto_file, type_name) ==
    LET hits == {i \in 1..Len(proto_file.message_type) :
                    FullName(proto_file, proto_file.message_type[i]) = type_name}
    IN  IF hits = {} THEN <<>>
        ELSE <<proto_file.message_type[CHOOSE i \in hits : \A j \in hits : j <= i]>>

\* The fields the emitters take a method to have: those of its input message
\* when msg_map holds it and it has fields (`input_msg and len(...) > 0`).
InputFields(proto_file, method) ==
    LET input_msg == MessageMapGet(proto_file, method.input_type)
    IN  IF input_msg # <<>> /\ Len(input_msg[1].field) > 0 THEN input_msg[1].field ELSE <<>>

\* The loop without its files_to_generate test.
GeneratedUnrequested(request, proto_file) == ~Contains(proto_file.name, S_google)

\* proto_file.name not in files_to_generate, or a google/protobuf file: skipped.
Generated(request, proto_file) ==
    /\ proto_file.name \in request.file_to_generate
    /\ ~Contains(proto_file.name, S_google)

\* The files of the request an emitter generates for, in request order.
FilesGenerated(request) == SelectSeq(request.proto_file, LAMBDA f : Generated(request, f))

\* A response: the units added, and the overall failure message (never set here).
Response(file, error) == [file |-> file, error |-> error]
EmptyResponse == Response(<<>>, PyNone)

Unit(name, content) == [name |-> name, content |-> content]

\* What one pass of a generate_code loop body did: an exception, or the units
\* it added; and the field numbers it looked options up with.
Emitted(units, keys) == [raised |-> "none", units |-> units, keys |-> keys]
EmitRaised(error, keys) == [raised |-> error, units |-> <<>>, keys |-> keys]

\* --- gen_client_python.py ---

\* Lines 72-118: one call operation, named by the method name alone.
EmitClientMethod(proto_file, service, method) ==
    LET fields == InputFields(proto_file, method)
    IN  [def_name |-> to_snake_case(method.name),
         params |-> [i \in 1..Len(fields) |->
                        [name |-> fields[i].name, type |-> TYPE_MAPPING(fields[i].type, "Any")]],
         field_assigns |-> [i \in 1..Len(fields) |-> fields[i].name],
         call |-> ClientMethod(service, method)]

\* Lines 64-118: one client class per service.
EmitClientClass(proto_file, service) ==
    [name |-> service.name \o S_Client,
     service_name |-> service.name,
     methods |-> [j \in 1..Len(service.method) |->
                     EmitClientMethod(proto_file, service, service.method[j])]]

\* Lines 138-163: subscribe_<snake_name> for one telemetry message; the topic
\* suffix is the option value, or "/telemetry/<snake_name>" when it is falsy.
EmitSubscriber(request, msg, has64) ==
    LET snake_name == to_snake_case(Replace(msg.name, S_Telemetry, <<>>))
        key == find_zenoh_key(request)
        value == get_option_value(msg.options, key, has64)
    IN  [raised |-> value.error,
         key |-> key,
         def_name |-> S_subscribe \o snake_name,
         cls |-> msg.name,
         zenoh_key |-> IF value.kind = "str" /\ value.value # <<>>
                       THEN value.value
                       ELSE S_slash_telemetry \o snake_name,
         handler |-> EmitTelemetryHandler(msg.name)]

\* Line 151, as the emitted method evaluates it:
\* key_expr = f"{self.device_id}<zenoh_key>".
SubscriberKeyExpr(sub, dev) == dev \o sub.zenoh_key

\* Line 123
TelemetryMessages(proto_file) ==
    SelectSeq(proto_file.message_type, LAMBDA m : EndsWith(m.name, S_Telemetry))

\* The subscribers up to and including the first whose option lookup raises.
RECURSIVE UntilRaised(_)
UntilRaised(subs) ==
    IF subs = <<>> THEN <<>>
    ELSE IF Head(subs).raised # "none" THEN <<Head(subs)>>
    ELSE <<Head(subs)>> \o UntilRaised(Tail(subs))

\* Lines 44-174: the loop body for one file.  The exception of an option
\* lookup is not caught; f.content is assigned last.
ClientGenerateFile(request, proto_file, has64) ==
    LET telemetry_msgs == TelemetryMessages(proto_file)
        subs == UntilRaised([i \in 1..Len(telemetry_msgs) |->
                                EmitSubscriber(request, telemetry_msgs[i], has64)])
        keys == [i \in 1..Len(subs) |-> subs[i].key]
        name == Replace(basename(proto_file.name), S_dotproto, S_client_py)
        pb == LastSegment(ReplaceChar(Replace(proto_file.name, S_dotproto, S_pb2), "/", "."))
    IN  IF subs # <<>> /\ subs[Len(subs)].raised # "none"
        THEN EmitRaised(subs[Len(subs)].raised, keys)
        ELSE Emitted(<<Unit(name, [pb |-> pb,
                                   classes |-> [i \in 1..Len(proto_file.service) |->
                                                   EmitClientClass(proto_file, proto_file.service[i])],
                                   subscribers |-> subs])>>,
                     keys)

\* Lines 38-174 of gen_client_python.py, and the fold every generate_code
\* performs: the loop bodies in request order, units appended to the response;
\* an exception ends the loop.
RECURSIVE Accumulate(_, _, _)
Accumulate(passes, response, keys) ==
    IF passes = <<>> THEN [raised |-> "none", response |-> response, keys |-> keys]
    ELSE IF Head(passes).raised # "none"
         THEN [raised |-> Head(passes).raised, response |-> response,
               keys |-> keys \o Head(passes).keys]
         ELSE Accumulate(Tail(passes),
                         Response(response.file \o Head(passes).units, response.error),
                         keys \o Head(passes).keys)

client_generate_code(request, response, has64) ==
    LET files == FilesGenerated(request)
    IN  Accumulate([i \in 1..Len(files) |-> ClientGenerateFile(request, files[i], has64)],
                   response, <<>>)

\* --- gen_server_nanopb.py ---

\* Lines 105-116: the search-path entries the parameter names.
RECURSIVE ProtoPathsFrom(_, _)
ProtoPathsFrom(parts, i) ==
    IF i > Len(parts) THEN <<>>
    ELSE LET part == parts[i]
             rest == SubSeq(part, 3, Len(part))
             path == IF StartsWith(rest, <<"=">>) THEN Tail(rest) ELSE rest
         IN  (IF StartsWith(part, <<"-", "I">>)
              THEN (IF path # <<>> THEN <<path>> ELSE <<>>)
              ELSE IF i > 1 /\ parts[i - 1] = <<"-", "I">> THEN <<part>> ELSE <<>>)
             \o ProtoPathsFrom(parts, i + 1)

\* Lines 98-119: proto_paths, the current directory last.
ProtoPaths(request) ==
    ProtoPathsFrom(SplitWhitespace(Strip(request.parameter)), 1) \o <<D_dot>>

\* An option value that `if zenoh_key:` and any() take as true.
Truthy(value) == value.kind = "str" /\ value.value # <<>>

\* Lines 161-162
MacroName(package, msg) ==
    (IF package # <<>> THEN Upper(ReplaceChar(package, ".", "_")) \o <<"_">> ELSE <<>>)
    \o Upper(to_snake_case(msg.name)) \o S_ZENOH_KEY

\* The registration the server emitter writes into register_handlers for one
\* method: kServiceName, the method name literal, and the handler it binds
\* (gen_server_nanopb.py lines 196 and 242-248).
ServerRegistration(service, method) ==
    [service_name |-> service.name,
     method_name |-> method.name,
     handler |-> <<service.name \o <<"S", "e", "r", "v", "e", "r">>,
                   <<"h", "a", "n", "d", "l", "e", "_">> \o method.name>>]

ServerRegistrations(file) ==
    UNION {{ServerRegistration(file.service[i], file.service[i].method[j]) :
                j \in 1..Len(file.service[i].method)} : i \in 1..Len(file.service)}

\* Lines 241-248: the registration statements of register_handlers, one per
\* method, in declaration order.
EmitRegisterHandlers(service) ==
    [j \in 1..Len(service.method) |-> ServerRegistration(service, service.method[j])]

\* Lines 171-214: the interface and the server class declared for a service.
EmitInterface(package, service) ==
    [name |-> service.name,
     methods |-> [j \in 1..Len(service.method) |->
                     [name |-> service.method[j].name,
                      req_type |-> req_type(package, service.method[j]),
                      res_type |-> res_type(package, service.method[j])]]]

\* Lines 234-316: constructor, register_handlers and the handlers of a service.
EmitServer(package, service, registry) ==
    [name |-> service.name \o <<"S", "e", "r", "v", "e", "r">>,
     registrations |-> EmitRegisterHandlers(service),
     handlers |-> [j \in 1..Len(service.method) |->
                      [name |-> service.method[j].name,
                       body |-> HandlerBody(package, service.method[j], registry)]]]

\* Lines 127-319: the loop body for one file.  The lookups of line 157 are
\* guarded by try / except, those of any() at line 164 are not; any() stops
\* at the first true value.
ServerGenerateFile(request, proto_file, existing, lines, read, has64) ==
    LET package == proto_file.package
        registry == parse_options_file(existing, lines, read, proto_file.name,
                                       ProtoPaths(request)).registry
        base == basename(proto_file.name)
        h_name == Replace(base, S_dotproto, S_server_h)
        cpp_name == Replace(base, S_dotproto, S_server_cpp)
        cpp_namespace == Replace(package, <<".">>, <<":", ":">>)
        zenoh_key_value == find_zenoh_key(request)
        msgs == proto_file.message_type
        values == [i \in 1..Len(msgs) |-> get_option_value(msgs[i].options, zenoh_key_value, has64)]
        defined == {i \in 1..Len(msgs) : Truthy(values[i])}
        raising == {i \in 1..Len(msgs) : values[i].kind = "raised"}
        stops == defined \cup raising
        last == IF stops = {} THEN Len(msgs) ELSE CHOOSE i \in stops : \A j \in stops : i <= j
        keys == [i \in 1..(Len(msgs) + last) |-> zenoh_key_value]
        pairs == [i \in 1..Len(msgs) |-> [macro |-> MacroName(package, msgs[i]), value |-> values[i]]]
        defines == SelectSeq(pairs, LAMBDA p : Truthy(p.value))
        h_content == [guard |-> ReplaceChar(Upper(h_name), ".", "_"),
                      include |-> Replace(base, S_dotproto, S_pbh),
                      defines |-> [i \in 1..Len(defines) |->
                                      [macro |-> defines[i].macro, value |-> defines[i].value.value]],
                      namespace |-> cpp_namespace,
                      interfaces |-> [i \in 1..Len(proto_file.service) |->
                                         EmitInterface(package, proto_file.service[i])]]
        c_content == [include |-> h_name,
                      module_name |-> ReplaceChar(Replace(base, S_dotproto, S_server), ".", "_"),
                      namespace |-> cpp_namespace,
                      servers |-> [i \in 1..Len(proto_file.service) |->
                                      EmitServer(package, proto_file.service[i], registry)]]
    IN  IF stops # {} /\ last \in raising
        THEN EmitRaised(values[last].error, keys)
        ELSE Emitted(<<Unit(h_name, h_content), Unit(cpp_name, c_content)>>, keys)

\* Lines 93-319
server_generate_code(request, response, existing, lines, read, has64) ==
    LET files == FilesGenerated(request)
    IN  Accumulate([i \in 1..Len(files) |->
                       ServerGenerateFile(request, files[i], existing, lines, read, has64)],
                   response, <<>>)

\* --- gen_nicegui.py ---

\* Lines 119-176: the widget of one input field.
EmitInput(field) ==
    [name |-> field.name,
     widget |-> CASE TYPE_MAPPING(field.type, "str") = "bool" -> "switch"
                  [] TYPE_MAPPING(field.type, "str") \in {"int", "float"} -> "number"
                  [] OTHER -> "input",
     bound |-> ~Contains(Lower(field.name), S_password)]

\* The control group with every result unpacked as a pair.
EmitControlGroupPairAlways(proto_file, service, method) ==
    LET fields == InputFields(proto_file, method)
    IN  [service |-> service.name,
         method |-> method.name,
         method_snake |-> to_snake_case(method.name),
         call_on |-> to_snake_case(service.name) \o S_client,
         inputs |-> [i \in 1..Len(fields) |-> EmitInput(fields[i])],
         kwargs |-> [i \in 1..Len(fields) |-> fields[i].name],
         call_func |-> IF fields # <<>> THEN "partial" ELSE "method",
         unpack |-> "pair"]

\* Lines 97-306: the control group of one method; call_func is the bound
\* method <client_instance_name>.<method_snake> when the method has no input
\* fields, partial(..., **kwargs) of it otherwise; the result is unpacked as
\* `call_result, None` when the output type ends with "Empty".
EmitControlGroup(proto_file, service, method) ==
    LET fields == InputFields(proto_file, method)
    IN  [service |-> service.name,
         method |-> method.name,
         method_snake |-> to_snake_case(method.name),
         call_on |-> to_snake_case(service.name) \o S_client,
         inputs |-> [i \in 1..Len(fields) |-> EmitInput(fields[i])],
         kwargs |-> [i \in 1..Len(fields) |-> fields[i].name],
         call_func |-> IF fields # <<>> THEN "partial" ELSE "method",
         unpack |-> IF EndsWith(method.output_type, S_Empty) THEN "marker" ELSE "pair"]

\* Lines 44-370: the loop body for one file; the unit is always service_gui.py.
UiGenerateFile(proto_file) ==
    LET telemetry_msgs == TelemetryMessages(proto_file)
    IN  Emitted(<<Unit(S_service_gui,
                       [base |-> Replace(basename(proto_file.name), S_dotproto, <<>>),
                        services |-> [i \in 1..Len(proto_file.service) |->
                            [name |-> proto_file.service[i].name,
                             client |-> to_snake_case(proto_file.service[i].name) \o S_client,
                             cls |-> proto_file.service[i].name \o S_Client,
                             groups |-> [j \in 1..Len(proto_file.service[i].method) |->
                                 EmitControlGroup(proto_file, proto_file.service[i],
                                                  proto_file.service[i].method[j])]]],
                        telemetry |-> [i \in 1..Len(telemetry_msgs) |->
                            S_subscribe \o to_snake_case(Replace(telemetry_msgs[i].name, S_Telemetry, <<>>))]])>>,
                <<>>)

\* Lines 36-370
ui_generate_code(request, response) ==
    LET files == FilesGenerated(request)
    IN  Accumulate([i \in 1..Len(files) |-> UiGenerateFile(files[i])], response, <<>>)

\* --- the plugin process (`if __name__ == "__main__":`) ---

\* A response object kept from the previous invocation.
NewResponseReused(previous) == Response(previous.file, previous.error)

\* response = plugin.CodeGeneratorResponse(): nothing of an earlier run is in it.
NewResponse(previous) == EmptyResponse

\* What one run of a plugin hands back: the serialized response, or nothing
\* when generate_code raised; and the field numbers its lookups used.
Main(emitter, run) ==
    [emitter |-> emitter,
     raised |-> run.raised,
     file |-> IF run.raised = "none" THEN run.response.file ELSE <<>>,
     error |-> IF run.raised = "none" THEN run.response.error ELSE PyNone,
     keys |-> run.keys]

NoRun == [emitter |-> "none", raised |-> "none", file |-> <<>>, error |-> PyNone, keys |-> <<>>]

NoRequest == Request({}, <<>>, <<>>)

GenIdle ==
    /\ grequest = NoRequest
    /\ gprev = NoRun
    /\ gcur = NoRun

\* protoc runs the client plugin on the request.
RunClient ==
    /\ \E run \in {client_generate_code(grequest, NewResponse(gcur), olib)} :
          gcur' = Main("client", run)
    /\ gprev' = gcur
    /\ UNCHANGED grequest
    /\ UNCHANGED <<serverVars, optionVars, rpcVars, telemetryVars, sidecarVars, registerVars, subscriberVars, buildVars, executeVars>>

\* protoc runs the server plugin on the request.
RunServer ==
    /\ \E run \in {server_generate_code(grequest, NewResponse(gcur),
                                        fs_exists, fs_lines, fs_read, olib)} :
          gcur' = Main("server", run)
    /\ gprev' = gcur
    /\ UNCHANGED grequest
    /\ UNCHANGED <<serverVars, optionVars, rpcVars, telemetryVars, sidecarVars, registerVars, subscriberVars, buildVars, executeVars>>

\* protoc runs the UI plugin on the request.
RunUi ==
    /\ \E run \in {ui_generate_code(grequest, NewResponse(gcur))} :
          gcur' = Main("ui", run)
    /\ gprev' = gcur
    /\ UNCHANGED grequest
    /\ UNCHANGED <<serverVars, optionVars, rpcVars, telemetryVars, sidecarVars, registerVars, subscriberVars, buildVars, executeVars>>

-----------------------------------------------------------------------------
(* The generated register_handlers at run time.                            *)

N_GetStatus == <<"G", "e", "t", "S", "t", "a", "t", "u", "s">>

\* `success = channel_.register_handler(...)`: the last outcome alone.
AndAssignOverwrites(success, ok) == ok

\* `success &= channel_.register_handler(...)`: the call is made whatever
\* `success` holds, then and-ed into it.
AndAssign(success, ok) == success /\ ok

\* Services a schema may declare: up to MethodsMax distinct methods.
MethodsMax == 3
MethodPool ==
    { Method(S_SetLed, T_LedRequest, T_LedResponse),
      Method(S_EchoMalloc, T_EchoRequestMalloc, T_EchoResponseMalloc),
      Method(S_StopSensorStream, T_Empty, T_Empty),
      Method(N_GetStatus, T_Empty, T_LedResponse) }
MethodLists ==
    UNION { { ms \in [1..n -> MethodPool] : \A i, j \in 1..n : ms[i] = ms[j] => i = j } :
            n \in 0..(IF MethodsMax < Cardinality(MethodPool) THEN MethodsMax
                       ELSE Cardinality(MethodPool)) }
RegisterServices == { [name |-> n, method |-> ms] : n \in {S_DeviceService, S_LogService}, ms \in MethodLists }

NoService == [name |-> <<>>, method |-> <<>>]

RegisterIdle ==
    /\ rservice = NoService
    /\ rnext = 1
    /\ rsuccess = TRUE
    /\ rattempts = <<>>
    /\ rret = "none"

\* One statement `success &= channel_.register_handler(kServiceName,
\* "<method>", ...)`; the channel accepts the handler or refuses it.
RegisterHandler ==
    /\ rret = "none"
    /\ rnext <= Len(EmitRegisterHandlers(rservice))
    /\ \E ok \in BOOLEAN :
          \E reg \in {EmitRegisterHandlers(rservice)[rnext]} :
              /\ rattempts' = Append(rattempts, [service_name |-> reg.service_name,
                                                 method_name |-> reg.method_name,
                                                 ok |-> ok])
              /\ rsuccess' = AndAssign(rsuccess, ok)
    /\ rnext' = rnext + 1
    /\ UNCHANGED <<rservice, rret>>
    /\ UNCHANGED <<serverVars, optionVars, rpcVars, telemetryVars, sidecarVars, genVars, subscriberVars, buildVars, executeVars>>

\* The log line and `return success;`.
RegisterReturn ==
    /\ rret = "none"
    /\ rnext > Len(EmitRegisterHandlers(rservice))
    /\ rret' = IF rsuccess THEN "true" ELSE "false"
    /\ UNCHANGED <<rservice, rnext, rsuccess, rattempts>>
    /\ UNCHANGED <<serverVars, optionVars, rpcVars, telemetryVars, sidecarVars, genVars, subscriberVars, buildVars, executeVars>>

-----------------------------------------------------------------------------
(* Subscriptions: ZenohSubscriberClient, LogSubscriber, the emitted          *)
(* TelemetrySubscriber and the UI page's update_subscriptions.               *)

S_slash_log == <<"/", "l", "o", "g">>

\* Ids the transport's subscriber objects may have.
IdsMax == 4

\* A key expression without empty chunk; the transport may refuse to declare
\* a subscriber on any other.
ValidKeyExpr(key_expr) ==
    /\ key_expr # <<>>
    /\ key_expr[1] # "/"
    /\ key_expr[Len(key_expr)] # "/"
    /\ ~Contains(key_expr, <<"/", "/">>)

\* session.declare_subscriber(key_expr, handler) and str(id(subscriber)): a
\* subscriber whose id no live subscriber has, or an exception.
Declares(subscribers, key_expr) ==
    { [refused |-> FALSE, sub_id |-> i] : i \in (1..IdsMax) \ {s.sub_id : s \in subscribers} }
    \cup (IF ValidKeyExpr(key_expr) THEN {} ELSE {[refused |-> TRUE, sub_id |-> 0]})

\* ZenohSubscriberClient.subscribe after a successful declare:
\* self._subscribers[sub_id] = subscriber.
SubClientSubscribe(subscribers, key_expr, sub_id) ==
    {s \in subscribers : s.sub_id # sub_id} \cup {[sub_id |-> sub_id, key_expr |-> key_expr]}

\* ZenohSubscriberClient.unsubscribe: undeclare and delete when the id is held.
SubClientUnsubscribe(subscribers, sub_id) == {s \in subscribers : s.sub_id # sub_id}

\* LogSubscriber.__init__
LogSubscriber(dev) == [kind |-> "log", device_id |-> dev, sub_id |-> 0]

\* LogSubscriber.subscribe after a successful declare: self._sub_id is
\* overwritten with the new id.
LogSubscribe(obj, subscribers, declared) ==
    [obj |-> [obj EXCEPT !.sub_id = declared.sub_id],
     subscribers |-> SubClientSubscribe(subscribers, obj.device_id \o S_slash_log,
                                        declared.sub_id)]

\* LogSubscriber.unsubscribe
LogUnsubscribe(obj, subscribers) ==
    IF obj.sub_id # 0
    THEN [obj |-> [obj EXCEPT !.sub_id = 0],
          subscribers |-> SubClientUnsubscribe(subscribers, obj.sub_id)]
    ELSE [obj |-> obj, subscribers |-> subscribers]

\* TelemetrySubscriber.__init__ (gen_client_python.py lines 125-136)
TelemetrySubscriber(dev) == [kind |-> "tel", device_id |-> dev, sub_ids |-> <<>>]

\* TelemetrySubscriber.unsubscribe_all (lines 165-171)
RECURSIVE UnsubscribeAll(_, _)
UnsubscribeAll(sub_ids, subscribers) ==
    IF sub_ids = <<>> THEN subscribers
    ELSE UnsubscribeAll(Tail(sub_ids), SubClientUnsubscribe(subscribers, Head(sub_ids)))

\* The topic suffixes of the subscribe_<name> methods emitted for a schema file.
PageSuffixes(file) ==
    LET msgs == TelemetryMessages(file)
    IN  [i \in 1..Len(msgs) |->
            EmitSubscriber(Request({file.name}, <<file>>, <<>>), msgs[i], TRUE).zenoh_key]

\* update_subscriptions, "Clear existing subscriptions": unsubscribe or
\* unsubscribe_all on every element of active_subs.
RECURSIVE ClearActive(_, _)
ClearActive(active, subscribers) ==
    IF active = <<>> THEN subscribers
    ELSE ClearActive(Tail(active),
                     IF Head(active).kind = "log"
                     THEN LogUnsubscribe(Head(active), subscribers).subscribers
                     ELSE UnsubscribeAll(Head(active).sub_ids, subscribers))

\* update_subscriptions, "2. Telemetry": tel_sub.subscribe_<name>(...) for
\* every Telemetry message in turn; every way the declares can turn out.
RECURSIVE TelemetryOutcomes(_, _, _, _)
TelemetryOutcomes(tel_sub, subscribers, suffixes, i) ==
    IF i > Len(suffixes)
    THEN {[raised |-> FALSE, tel_sub |-> tel_sub, subscribers |-> subscribers]}
    ELSE UNION { IF o.refused
                 THEN {[raised |-> TRUE, tel_sub |-> tel_sub, subscribers |-> subscribers]}
                 ELSE TelemetryOutcomes(
                          [tel_sub EXCEPT !.sub_ids = Append(@, o.sub_id)],
                          SubClientSubscribe(subscribers, tel_sub.device_id \o suffixes[i], o.sub_id),
                          suffixes, i + 1) :
                 o \in Declares(subscribers, tel_sub.device_id \o suffixes[i]) }

\* One run of update_subscriptions for the device id in the input: every
\* outcome [raised, active, subscribers].
UpdateOutcomes(active, subscribers, dev, suffixes) ==
    LET cleared == ClearActive(active, subscribers)
    IN  UNION { IF o.refused
                THEN {[raised |-> TRUE, active |-> <<>>, subscribers |-> cleared]}
                ELSE LET log == LogSubscribe(LogSubscriber(dev), cleared, o)
                     IN  IF suffixes = <<>>
                         THEN {[raised |-> FALSE, active |-> <<log.obj>>,
                                subscribers |-> log.subscribers]}
                         ELSE { [raised |-> t.raised,
                                 active |-> IF t.raised THEN <<log.obj>>
                                            ELSE <<log.obj, t.tel_sub>>,
                                 subscribers |-> t.subscribers] :
                                t \in TelemetryOutcomes(TelemetrySubscriber(dev),
                                                        log.subscribers, suffixes, 1) } :
                o \in Declares(cleared, dev \o S_slash_log) }

NoLast == [run |-> "none", device_id |-> <<>>, raised |-> FALSE]

SubscriberIdle ==
    /\ psubs = {}
    /\ pschema = TwoFile
    /\ pdevice = <<>>
    /\ pactive = <<>>
    /\ pstage = "none"
    /\ plast = NoLast
    /\ lobj = LogSubscriber(<<>>)
    /\ lcreated = {}
    /\ llast = "none"

\* create_ui reaches "Initial subscription": update_subscriptions(); an
\* exception ends create_ui.
InitialRun ==
    /\ pstage = "building"
    /\ \E o \in UpdateOutcomes(pactive, psubs, pdevice, PageSuffixes(pschema)) :
          /\ psubs' = o.subscribers
          /\ pactive' = o.active
          /\ plast' = [run |-> "initial", device_id |-> pdevice, raised |-> o.raised]
          /\ pstage' = IF o.raised THEN "failed" ELSE "ready"
    /\ UNCHANGED <<pschema, pdevice, lobj, lcreated, llast>>
    /\ UNCHANGED <<serverVars, optionVars, rpcVars, telemetryVars, sidecarVars, genVars, registerVars, buildVars, executeVars>>

\* The 'Set' button: update_subscriptions() for the value in the input.
SetClick ==
    /\ pstage = "ready"
    /\ \E o \in UpdateOutcomes(pactive, psubs, pdevice, PageSuffixes(pschema)) :
          /\ psubs' = o.subscribers
          /\ pactive' = o.active
          /\ plast' = [run |-> "set", device_id |-> pdevice, raised |-> o.raised]
    /\ UNCHANGED <<pschema, pdevice, pstage, lobj, lcreated, llast>>
    /\ UNCHANGED <<serverVars, optionVars, rpcVars, telemetryVars, sidecarVars, genVars, registerVars, buildVars, executeVars>>

\* The user edits the device id: the 'change' event runs update_subscriptions.
DeviceIdChange ==
    /\ pstage = "ready"
    /\ \E d \in DeviceIds \ {pdevice} :
          /\ pdevice' = d
          /\ \E o \in UpdateOutcomes(pactive, psubs, d, PageSuffixes(pschema)) :
                /\ psubs' = o.subscribers
                /\ pactive' = o.active
                /\ plast' = [run |-> "change", device_id |-> d, raised |-> o.raised]
    /\ UNCHANGED <<pschema, pstage, lobj, lcreated, llast>>
    /\ UNCHANGED <<serverVars, optionVars, rpcVars, telemetryVars, sidecarVars, genVars, registerVars, buildVars, executeVars>>

\* log_sub.subscribe(callback) on a LogSubscriber of its own.
LogSubscribeCall ==
    /\ pstage = "none"
    /\ \E o \in Declares(psubs, lobj.device_id \o S_slash_log) :
          IF o.refused
          THEN UNCHANGED <<psubs, lobj, lcreated>>
          ELSE \E r \in {LogSubscribe(lobj, psubs, o)} :
                  /\ lobj' = r.obj
                  /\ psubs' = r.subscribers
                  /\ lcreated' = lcreated \cup {o.sub_id}
    /\ llast' = "subscribe"
    /\ UNCHANGED <<pschema, pdevice, pactive, pstage, plast>>
    /\ UNCHANGED <<serverVars, optionVars, rpcVars, telemetryVars, sidecarVars, genVars, registerVars, buildVars, executeVars>>

\* log_sub.unsubscribe()
LogUnsubscribeCall ==
    /\ pstage = "none"
    /\ \E r \in {LogUnsubscribe(lobj, psubs)} :
          /\ lobj' = r.obj
          /\ psubs' = r.subscribers
    /\ llast' = "unsubscribe"
    /\ UNCHANGED lcreated
    /\ UNCHANGED <<pschema, pdevice, pactive, pstage, plast>>
    /\ UNCHANGED <<serverVars, optionVars, rpcVars, telemetryVars, sidecarVars, genVars, registerVars, buildVars, executeVars>>

-----------------------------------------------------------------------------
(* The execute actions of a generated UI page (gen_nicegui.py lines 97-306, *)
(* tools/gui.py).  create_ui is one function: inputs_<method_snake>,        *)
(* result_area_<method_snake> and <service_snake>_client are its local      *)
(* names, and each `async def call_<method_snake>()` refers to them by      *)
(* name, so it sees what the name holds when it runs.                       *)

S_inputs_ == <<"i", "n", "p", "u", "t", "s", "_">>
S_result_area_ == <<"r", "e", "s", "u", "l", "t", "_", "a", "r", "e", "a", "_">>

\* An assignment to a local name: the name holds the new value from then on.
Rebind(names, name, value) ==
    [n \in DOMAIN names \cup {name} |-> IF n = name THEN value ELSE names[n]]

\* The statements of one control group: `inputs_<method_snake> = {}` when the
\* method has input fields, `result_area_<method_snake> = ui.markdown()`.
\* The widgets of the g-th group of the page are identified by g.
BindGroup(names, group, g) ==
    Rebind(IF group.inputs # <<>> THEN Rebind(names, S_inputs_ \o group.method_snake, g) ELSE names,
           S_result_area_ \o group.method_snake, g)

RECURSIVE BindGroups(_, _, _, _)
BindGroups(names, groups, j, base) ==
    IF j > Len(groups) THEN names
    ELSE BindGroups(BindGroup(names, groups[j], base + j), groups, j + 1, base)

\* `<client_instance_name> = service_client.<Service>Client(zenoh_client)`,
\* then the groups of the service's methods.
RECURSIVE BindServices(_, _, _, _)
BindServices(names, services, i, base) ==
    IF i > Len(services) THEN names
    ELSE BindServices(BindGroups(Rebind(names, services[i].client, services[i].cls),
                                 services[i].groups, 1, base),
                      services, i + 1, base + Len(services[i].groups))

\* What create_ui's names hold when it returns.
CreateUi(page) == BindServices(<<>>, page.services, 1, 0)

RECURSIVE Flatten(_)
Flatten(seqs) == IF seqs = <<>> THEN <<>> ELSE Head(seqs) \o Flatten(Tail(seqs))

\* The control groups of a page in the order they are emitted.
PageGroups(page) == Flatten([i \in 1..Len(page.services) |-> page.services[i].groups])

\* The service a generated <Service>Client class calls.
ServiceOfClient(page, cls) ==
    (CHOOSE i \in 1..Len(page.services) : page.services[i].cls = cls)

\* The pages: the UI generated for service.proto and for two.proto.
ExecutePages ==
    { UiGenerateFile(DeviceFile(P_service, <<>>, <<>>)).units[1].content,
      UiGenerateFile(TwoFile).units[1].content }

\* Execute actions that may be under way at once: clicks on one page or on
\* two pages; tools/gui.py hands the same zenoh_client to every page.
ExecuteTasks == {1, 2}

IdleTask ==
    [stage |-> "idle", group |-> 0, dev |-> <<>>, read |-> {}, wrote |-> {},
     service |-> <<>>, key |-> <<>>]

ExecuteIdle ==
    /\ xpage = <<>>
    /\ xnames = <<>>
    /\ xclient = <<>>
    /\ xtask = [t \in ExecuteTasks |-> IdleTask]

\* A click on the Execute button of a group: call_<method_snake>() runs up to
\* its first await: set_device_id(device_id_input.value), then
\* result_area_<method_snake>.set_content('Calling RPC...').
ExecuteClick(t) ==
    /\ xtask[t].stage \in {"idle", "done"}
    /\ \E g \in 1..Len(PageGroups(xpage)) :
       \E dev \in DeviceIds :
          /\ xclient' = dev
          /\ xtask' = [xtask EXCEPT ![t] =
                 [stage |-> "sleeping", group |-> g, dev |-> dev, read |-> {},
                  wrote |-> {xnames[S_result_area_ \o PageGroups(xpage)[g].method_snake]},
                  service |-> <<>>, key |-> <<>>]]
    /\ UNCHANGED <<xpage, xnames>>
    /\ UNCHANGED <<serverVars, optionVars, rpcVars, telemetryVars, sidecarVars, genVars, registerVars, subscriberVars, buildVars>>

\* After `await asyncio.sleep(0.01)`: kwargs are read from
\* inputs_<method_snake>, call_func is made from
\* <client_instance_name>.<method_snake>, and run_in_executor hands it to a
\* worker thread.
ExecuteSubmit(t) ==
    /\ xtask[t].stage = "sleeping"
    /\ \E group \in {PageGroups(xpage)[xtask[t].group]} :
          xtask' = [xtask EXCEPT ![t].stage = "queued",
                                 ![t].read = IF group.kwargs # <<>>
                                             THEN {xnames[S_inputs_ \o group.method_snake]}
                                             ELSE {},
                                 ![t].service = xpage.services[ServiceOfClient(xpage, xnames[group.call_on])].name]
    /\ UNCHANGED <<xpage, xnames, xclient>>
    /\ UNCHANGED <<serverVars, optionVars, rpcVars, telemetryVars, sidecarVars, genVars, registerVars, subscriberVars, buildVars>>

\* The worker thread runs the generated client method, which calls
\* ZenohRpcClient.call: key_expr is made from self.device_id as it is then.
WorkerCall(t) ==
    /\ xtask[t].stage = "queued"
    /\ xtask' = [xtask EXCEPT ![t].stage = "called",
                              ![t].key = KeyExpr(xclient, xtask[t].service,
                                                 PageGroups(xpage)[xtask[t].group].method)]
    /\ UNCHANGED <<xpage, xnames, xclient>>
    /\ UNCHANGED <<serverVars, optionVars, rpcVars, telemetryVars, sidecarVars, genVars, registerVars, subscriberVars, buildVars>>

\* The awaited call_result arrives: result_area_<method_snake>.set_content(md_content).
ExecuteRender(t) ==
    /\ xtask[t].stage = "called"
    /\ xtask' = [xtask EXCEPT ![t].stage = "done",
                              ![t].wrote = @ \cup {xnames[S_result_area_ \o PageGroups(xpage)[xtask[t].group].method_snake]}]
    /\ UNCHANGED <<xpage, xnames, xclient>>
    /\ UNCHANGED <<serverVars, optionVars, rpcVars, telemetryVars, sidecarVars, genVars, registerVars, subscriberVars, buildVars>>

-----------------------------------------------------------------------------
(* build.py: main.                                                         *)

Args(app_exists, pristine, flash_only, proto_only, build_only, erase_nvs) ==
    [app_exists |-> app_exists, pristine |-> pristine, flash_only |-> flash_only,
     proto_only |-> proto_only, build_only |-> build_only, erase_nvs |-> erase_nvs]

CommandLines ==
    { Args(a, c, f, p, b, e) : a \in BOOLEAN, c \in BOOLEAN, f \in BOOLEAN, p \in BOOLEAN,
                               b \in BOOLEAN, e \in BOOLEAN }

\* "# Flash": `if not args.build_only:`, else `return 0`.
FlashSection(args) == IF ~args.build_only THEN "flash" ELSE "done"

\* "# Erase NVS if requested": `if args.erase_nvs:`.
EraseSection(args) == IF args.erase_nvs THEN "erase" ELSE FlashSection(args)

\* "# Build": `if not args.flash_only:`.
BuildSection(args) == IF ~args.flash_only THEN "proto" ELSE EraseSection(args)

BuildIdle ==
    /\ bargs = Args(FALSE, FALSE, FALSE, FALSE, FALSE, FALSE)
    /\ bpc = "done"
    /\ bcalls = <<>>
    /\ bexit = 0

\* `if not app_path.exists(): return 1`
CheckApp ==
    /\ bpc = "app"
    /\ IF ~bargs.app_exists
       THEN bpc' = "done" /\ bexit' = 1
       ELSE /\ bpc' = BuildSection(bargs)
            /\ bexit' = IF BuildSection(bargs) = "done" THEN 0 ELSE bexit
    /\ UNCHANGED <<bargs, bcalls>>
    /\ UNCHANGED <<serverVars, optionVars, rpcVars, telemetryVars, sidecarVars, genVars, registerVars, subscriberVars, executeVars>>

\* `if not generate_proto(app_path): return 1`, `if args.proto_only: return 0`
GenerateProto ==
    /\ bpc = "proto"
    /\ bcalls' = Append(bcalls, "generate_proto")
    /\ \E ok \in BOOLEAN :
          IF ~ok THEN bpc' = "done" /\ bexit' = 1
          ELSE IF bargs.proto_only THEN bpc' = "done" /\ bexit' = 0
          ELSE bpc' = "build" /\ bexit' = bexit
    /\ UNCHANGED bargs
    /\ UNCHANGED <<serverVars, optionVars, rpcVars, telemetryVars, sidecarVars, genVars, registerVars, subscriberVars, executeVars>>

\* `if not build(app_path, pristine=args.pristine): return 1`
Build ==
    /\ bpc = "build"
    /\ bcalls' = Append(bcalls, IF bargs.pristine THEN "build -p always" ELSE "build")
    /\ \E ok \in BOOLEAN :
          IF ~ok THEN bpc' = "done" /\ bexit' = 1
          ELSE /\ bpc' = EraseSection(bargs)
               /\ bexit' = IF EraseSection(bargs) = "done" THEN 0 ELSE bexit
    /\ UNCHANGED bargs
    /\ UNCHANGED <<serverVars, optionVars, rpcVars, telemetryVars, sidecarVars, genVars, registerVars, subscriberVars, executeVars>>

\* `if not erase_nvs(): return 1`
EraseNvs ==
    /\ bpc = "erase"
    /\ bcalls' = Append(bcalls, "erase_nvs")
    /\ \E ok \in BOOLEAN :
          IF ~ok THEN bpc' = "done" /\ bexit' = 1
          ELSE /\ bpc' = FlashSection(bargs)
               /\ bexit' = IF FlashSection(bargs) = "done" THEN 0 ELSE bexit
    /\ UNCHANGED bargs
    /\ UNCHANGED <<serverVars, optionVars, rpcVars, telemetryVars, sidecarVars, genVars, registerVars, subscriberVars, executeVars>>

\* `if not flash(runner=args.runner): return 1`
Flash ==
    /\ bpc = "flash"
    /\ bcalls' = Append(bcalls, "flash")
    /\ \E ok \in BOOLEAN :
          IF ~ok THEN bpc' = "done" /\ bexit' = 1
          ELSE bpc' = "monitor" /\ bexit' = bexit
    /\ UNCHANGED bargs
    /\ UNCHANGED <<serverVars, optionVars, rpcVars, telemetryVars, sidecarVars, genVars, registerVars, subscriberVars, executeVars>>

\* `if not monitor(...): return 1`, `return 0`
Monitor ==
    /\ bpc = "monitor"
    /\ bcalls' = Append(bcalls, "monitor")
    /\ \E ok \in BOOLEAN :
          /\ bpc' = "done"
          /\ bexit' = IF ok THEN 0 ELSE 1
    /\ UNCHANGED bargs
    /\ UNCHANGED <<serverVars, optionVars, rpcVars, telemetryVars, sidecarVars, genVars, registerVars, subscriberVars, executeVars>>

-----------------------------------------------------------------------------
(* Specifications: one per component; the other components stay idle.      *)

ServerIdle ==
    /\ pointers = {}
    /\ hmethod = NoMethod
    /\ hcode = <<>>
    /\ hstatus = "unset"
    /\ hdecoded = "none"
    /\ hencoded = "none"
    /\ htrace = <<>>
    /\ hheld = {}
    /\ hreleased = <<>>
    /\ hret = "none"

\* The generator has run with some pointer registry; no handler is running.
InitServer ==
    /\ ExecuteIdle
    /\ BuildIdle
    /\ SubscriberIdle
    /\ RegisterIdle
    /\ GenIdle
    /\ SidecarIdle
    /\ pointers \in SUBSET PointerCandidates
    /\ hmethod = NoMethod
    /\ hcode = <<>>
    /\ hstatus = "unset"
    /\ hdecoded = "none"
    /\ hencoded = "none"
    /\ htrace = <<>>
    /\ hheld = {}
    /\ hreleased = <<>>
    /\ hret = "none"
    /\ OptionIdle
    /\ RpcIdle
    /\ TelemetryIdle

NextServer ==
    \/ Invoke
    \/ ExecDecl
    \/ ExecDecode
    \/ ExecCallImpl
    \/ ExecIfStatus
    \/ ExecEncode
    \/ ExecRelease
    \/ ExecReturn

SpecServer == InitServer /\ [][NextServer]_vars

\* get_option_value has been called on some options object with some key.
InitOption ==
    /\ ExecuteIdle
    /\ BuildIdle
    /\ SubscriberIdle
    /\ RegisterIdle
    /\ GenIdle
    /\ SidecarIdle
    /\ ofields \in OptionInputs
    /\ okey \in OptionKeys
    /\ odata = SerializeToString(ofields)
    /\ opos = 0
    /\ oresult = OptRunning
    /\ olib \in BOOLEAN
    /\ ServerIdle
    /\ RpcIdle
    /\ TelemetryIdle

NextOption ==
    \/ OptIterate
    \/ OptReturnNone

SpecOption == InitOption /\ [][NextOption]_vars

\* Any byte buffer, not only a serialization: tags of field 1 with wire type
\* 2 (10) and of field 2 with wire types 0, 3, 4, 6 and 7 (16, 19, 20, 22,
\* 23), a small value (1) and a byte with the continuation bit set (200).
ScanBytes == {1, 10, 16, 19, 20, 22, 23, 200}

ScanMax == 4

ScanBuffers == UNION {[1..n -> ScanBytes] : n \in 0..ScanMax}

InitScan ==
    /\ ExecuteIdle
    /\ BuildIdle
    /\ SubscriberIdle
    /\ RegisterIdle
    /\ GenIdle
    /\ SidecarIdle
    /\ ServerIdle
    /\ RpcIdle
    /\ TelemetryIdle
    /\ ofields = <<>>
    /\ okey \in {1, 2}
    /\ odata \in ScanBuffers
    /\ opos = 0
    /\ oresult = OptRunning
    /\ olib \in BOOLEAN

\* The loop is sequential code: an iteration that can run does run.
SpecScan == InitScan /\ [][NextOption]_vars /\ WF_vars(NextOption)

\* A ZenohRpcClient has been constructed with some device id.
InitRpc ==
    /\ ExecuteIdle
    /\ BuildIdle
    /\ SubscriberIdle
    /\ RegisterIdle
    /\ GenIdle
    /\ SidecarIdle
    /\ device_id \in DeviceIds
    /\ cset = device_id
    /\ ccall = NoMethod
    /\ cdev = <<>>
    /\ coutcome = NoOutcome
    /\ cargs = <<>>
    /\ ckey = <<>>
    /\ ctaken = 0
    /\ cresult = RpcResult(FALSE, <<>>, PyNone)
    /\ cret = NotCalled
    /\ ServerIdle
    /\ OptionIdle
    /\ TelemetryIdle

NextRpc ==
    \/ SetDeviceId
    \/ GeneratedCall

SpecRpc == InitRpc /\ [][NextRpc]_vars

\* A TelemetrySubscriber has been constructed for some device id.
InitTelemetry ==
    /\ ExecuteIdle
    /\ BuildIdle
    /\ SubscriberIdle
    /\ RegisterIdle
    /\ GenIdle
    /\ SidecarIdle
    /\ tdevice \in DeviceIds
    /\ tsubs = <<>>
    /\ tdelivered = <<>>
    /\ tpassed = <<>>
    /\ tlogged = 0
    /\ tescaped = 0
    /\ ServerIdle
    /\ OptionIdle
    /\ RpcIdle

NextTelemetry ==
    \/ SubscribeSensor
    \/ DeliverSample
    \/ TelemetryUnsubscribeAll

SpecTelemetry == InitTelemetry /\ [][NextTelemetry]_vars

\* parse_options_file on its own: either the search is exercised (any small
\* file system, any schema path and search path, a one-line sidecar) or the
\* reading is (the sidecar next to the schema, any text, any failure point).
InitSidecar ==
    /\ ExecuteIdle
    /\ BuildIdle
    /\ SubscriberIdle
    /\ RegisterIdle
    /\ GenIdle
    /\ ServerIdle
    /\ OptionIdle
    /\ RpcIdle
    /\ TelemetryIdle
    /\ \/ /\ fs_exists \in FileSystems
          /\ fs_lines = <<L_Msg>>
          /\ sname \in SchemaPaths
          /\ spaths \in SearchPathLists
       \/ /\ fs_exists \in {{}, {F_service}}
          /\ fs_lines \in SidecarTexts
          /\ sname = P_service
          /\ spaths = <<D_dot>>
    /\ fs_read \in Reads(fs_lines)
    /\ sfile = PyNone
    /\ sregistry = {}
    /\ swarned = FALSE
    /\ sraised = FALSE
    /\ sdone = FALSE

NextSidecar == ParseOptionsFile

SpecSidecar == InitSidecar /\ [][NextSidecar]_vars


\* The generator plugins run on one request, in one environment: a sidecar
\* next to the schema or none, a protobuf runtime with or without
\* decoder._DecodeVarint64.
InitGen ==
    /\ ExecuteIdle
    /\ BuildIdle
    /\ SubscriberIdle
    /\ RegisterIdle
    /\ ServerIdle
    /\ RpcIdle
    /\ TelemetryIdle
    /\ ofields = <<>>
    /\ okey = DefaultKey
    /\ odata = <<>>
    /\ opos = 0
    /\ oresult = OptNone
    /\ olib \in BOOLEAN
    /\ fs_exists \in {{}, {F_service}}
    /\ fs_lines = <<L_EchoReq>>
    /\ fs_read \in IF fs_exists = {} THEN {ReadsToEnd} ELSE Reads(fs_lines)
    /\ sname = <<>>
    /\ spaths = <<>>
    /\ sfile = PyNone
    /\ sregistry = {}
    /\ swarned = FALSE
    /\ sraised = FALSE
    /\ sdone = FALSE
    /\ grequest \in Requests
    /\ gprev = NoRun
    /\ gcur = NoRun

NextGen == RunClient \/ RunServer \/ RunUi

SpecGen == InitGen /\ [][NextGen]_vars

\* register_handlers of the server of one service runs once.
InitRegister ==
    /\ ExecuteIdle
    /\ BuildIdle
    /\ SubscriberIdle
    /\ ServerIdle
    /\ OptionIdle
    /\ RpcIdle
    /\ TelemetryIdle
    /\ SidecarIdle
    /\ GenIdle
    /\ rservice \in RegisterServices
    /\ rnext = 1
    /\ rsuccess = TRUE
    /\ rattempts = <<>>
    /\ rret = "none"

NextRegister == RegisterHandler \/ RegisterReturn

SpecRegister == InitRegister /\ [][NextRegister]_vars

\* One page of the generated UI: create_ui for a schema file and a default
\* device id, then the user's clicks and edits.
InitPage ==
    /\ ExecuteIdle
    /\ BuildIdle
    /\ ServerIdle
    /\ OptionIdle
    /\ RpcIdle
    /\ TelemetryIdle
    /\ SidecarIdle
    /\ GenIdle
    /\ RegisterIdle
    /\ psubs = {}
    /\ pschema \in {DeviceFile(P_service, o, <<>>) : o \in TelemetryOptionSets} \cup {TwoFile}
    /\ pdevice \in DeviceIds
    /\ pactive = <<>>
    /\ pstage = "building"
    /\ plast = NoLast
    /\ lobj = LogSubscriber(<<>>)
    /\ lcreated = {}
    /\ llast = "none"

NextPage == InitialRun \/ SetClick \/ DeviceIdChange

SpecPage == InitPage /\ [][NextPage]_vars

\* One LogSubscriber on a subscriber client of its own.
InitLog ==
    /\ ExecuteIdle
    /\ BuildIdle
    /\ ServerIdle
    /\ OptionIdle
    /\ RpcIdle
    /\ TelemetryIdle
    /\ SidecarIdle
    /\ GenIdle
    /\ RegisterIdle
    /\ psubs = {}
    /\ pschema = TwoFile
    /\ pdevice = <<>>
    /\ pactive = <<>>
    /\ pstage = "none"
    /\ plast = NoLast
    /\ lobj \in {LogSubscriber(d) : d \in DeviceIds}
    /\ lcreated = {}
    /\ llast = "none"

NextLog == LogSubscribeCall \/ LogUnsubscribeCall

SpecLog == InitLog /\ [][NextLog]_vars

\* build.py runs once on a command line.
InitBuild ==
    /\ ExecuteIdle
    /\ ServerIdle
    /\ OptionIdle
    /\ RpcIdle
    /\ TelemetryIdle
    /\ SidecarIdle
    /\ GenIdle
    /\ RegisterIdle
    /\ SubscriberIdle
    /\ bargs \in CommandLines
    /\ bpc = "app"
    /\ bcalls = <<>>
    /\ bexit = -1

NextBuild == CheckApp \/ GenerateProto \/ Build \/ EraseNvs \/ Flash \/ Monitor

SpecBuild == InitBuild /\ [][NextBuild]_vars

InitExecute ==
    /\ ServerIdle
    /\ OptionIdle
    /\ RpcIdle
    /\ TelemetryIdle
    /\ SidecarIdle
    /\ GenIdle
    /\ RegisterIdle
    /\ SubscriberIdle
    /\ BuildIdle
    /\ xpage \in ExecutePages
    /\ xnames = CreateUi(xpage)
    /\ xclient \in DeviceIds
    /\ xtask = [t \in ExecuteTasks |-> IdleTask]

NextExecute ==
    \E t \in ExecuteTasks :
        ExecuteClick(t) \/ ExecuteSubmit(t) \/ WorkerCall(t) \/ ExecuteRender(t)

SpecExecute == InitExecute /\ [][NextExecute]_vars

-----------------------------------------------------------------------------
(* Properties of the generated server handler.                             *)

InTrace(step) == \E i \in 1..Len(htrace) : htrace[i] = step

StepRank(step) ==
    CASE step = "decode" -> 1
      [] step = "invoke" -> 2
      [] step = "encode" -> 3
      [] step = "release" -> 4

\* The steps performed so far respect decode < invoke < encode < release,
\* and decode, invoke and encode are each performed at most once.
TraceOrdered ==
    \A i, j \in 1..Len(htrace) :
        i < j => /\ StepRank(htrace[i]) <= StepRank(htrace[j])
                 /\ (htrace[i] = htrace[j] => htrace[i] = "release")

\* The message a handler variable holds: the unqualified request / response name.
MessageOfVar(v) ==
    IF v = "request" THEN LastSegment(MethodOf(hmethod).input_type)
    ELSE LastSegment(MethodOf(hmethod).output_type)

\* C1: when decoding the request fails the handler returns DECODE_ERROR, and
\* on that path the implementation is never invoked and no encode is attempted.
C1_DecodeFailureStops ==
    hdecoded = "fail" =>
        /\ ~InTrace("invoke")
        /\ ~InTrace("encode")
        /\ hstatus = "unset"
        /\ hencoded = "none"
        /\ (HandlerDone => hret = "DECODE_ERROR")

C1_Witness == HandlerDone /\ hdecoded = "fail" /\ hret = "DECODE_ERROR"

\* C2: on every exit path, every pointer-bearing message the handler holds has
\* been released before the handler returns, and no message outside the
\* pointer registry is released.
C2_ReleasedOnEveryExit ==
    HandlerDone =>
        /\ \A v \in hheld : MessageOfVar(v) \in pointers => v \in Range(hreleased)
        /\ \A v \in Range(hreleased) : MessageOfVar(v) \in pointers

\* C3: the steps run in the order decode, invoke, encode, release; the
\* implementation is invoked only after a successful decode; a non-OK status
\* is returned as it is and no encode is attempted; encode is attempted only
\* after an OK status; an encode failure returns ENCODE_ERROR; OK is returned
\* only when decode, invoke and encode all succeeded.
C3_StrictSequence ==
    /\ TraceOrdered
    /\ (InTrace("invoke") => hdecoded = "ok")
    /\ (hstatus \notin {"unset", "OK"} =>
            /\ ~InTrace("encode")
            /\ (HandlerDone => hret = hstatus))
    /\ (InTrace("encode") => hstatus = "OK")
    /\ (hencoded = "fail" /\ HandlerDone => hret = "ENCODE_ERROR")
    /\ (hret = "OK" => hdecoded = "ok" /\ hstatus = "OK" /\ hencoded = "ok")
    /\ (HandlerDone /\ hdecoded = "ok" /\ hstatus = "OK" /\ hencoded = "ok" => hret = "OK")

C3_Witness ==
    /\ HandlerDone /\ hret = "OK"
    /\ htrace = <<"decode", "invoke", "encode", "release", "release">>

-----------------------------------------------------------------------------
(* Properties of the client call and of ZenohRpcClient.                    *)

Called == ccall # NoMethod

\* C4: the generated call ends by returning an explicit result (success, or
\* failure carrying error text) for every outcome of the transport and of
\* decoding the reply; no exception escapes it.
C4_AlwaysReturnsResult ==
    Called =>
        /\ cret.kind = "returned"
        /\ (cret.response.success \/ cret.response.error # PyNone)

\* C17: a method whose output type name ends in 'Empty' returns the marker
\* alone, on success and on failure, and no payload is parsed or returned;
\* every other method returns the pair (marker, payload), the payload being
\* the parsed output on success and absent on failure.
C17_ReturnShape ==
    Called =>
        LET output_type == MethodOf(ccall).output_type
        IN  /\ cret.kind = "returned"
            /\ cret.response.success = cresult.success
            /\ IF EndsWith(output_type, S_Empty)
               THEN /\ cret.arity = 1
                    /\ cret.payload = NoPayload
               ELSE /\ cret.arity = 2
                    /\ IF cresult.success
                       THEN cret.payload = [cls |-> LastSegment(output_type), data |-> cresult.data]
                       ELSE cret.payload = NoPayload

\* C5: the result of call() is decided by the first reply alone: success with
\* its payload when it is ok, a reply-error failure when it is an error; no
\* later reply is taken; with no reply the failure is 'No reply received',
\* which no error reply produces.
C5_FirstReplyWins ==
    Called /\ ~coutcome.raises =>
        /\ ctaken <= 1
        /\ IF coutcome.replies = <<>>
           THEN /\ cresult = RpcResult(FALSE, <<>>, S_NoReply)
                /\ \A r \in Replies : ~r.ok => cresult.error # S_ReplyError \o r.err
           ELSE LET first == Head(coutcome.replies)
                IN  IF first.ok
                    THEN cresult = RpcResult(TRUE, first.payload, PyNone)
                    ELSE /\ cresult = RpcResult(FALSE, <<>>, S_ReplyError \o first.err)
                         /\ cresult.error # S_NoReply

C5_Witness ==
    /\ Called
    /\ coutcome.replies = <<ErrReply(S_busy), OkReply(PayloadGood)>>
    /\ ~cresult.success

\* C6: the key queried is '<device-id>/rpc/<Service>/<Method>' when the device
\* id last set (constructor or set_device_id) is non-empty, and
\* 'rpc/<Service>/<Method>' when it is empty.
C6_KeyExpression ==
    Called =>
        /\ Split(ckey, "/") = IF cdev = <<>>
                              THEN <<S_rpc, cargs[1], cargs[2]>>
                              ELSE <<cdev, S_rpc, cargs[1], cargs[2]>>
        /\ (cargs = <<S_DeviceService, S_SetLed>> /\ cdev = S_dev1 => ckey = S_KeyExample)
        /\ (cargs = <<S_DeviceService, S_SetLed>> /\ cdev = <<>> => ckey = S_KeyExampleNoDevice)

C6_Witness == Called /\ cdev = S_dev1 /\ ckey = S_KeyExample

\* C7: the (service, method) pair the generated client passes to the transport
\* is the pair under which the generated dispatcher registers that method's
\* handler: the service's and the method's names verbatim.
C7_ClientServerSameKey ==
    Called =>
        LET reg == ServerRegistration(ServiceOf(ccall), MethodOf(ccall))
        IN  /\ cargs = <<reg.service_name, reg.method_name>>
            /\ cargs = <<ServiceOf(ccall).name, MethodOf(ccall).name>>
            /\ \A other \in ServerRegistrations(FileOf(ccall)) :
                  <<other.service_name, other.method_name>> = cargs => other.handler = reg.handler

C7_Witness == Called /\ ccall.file = "two.proto" /\ cargs = <<S_LogService, S_SetLed>>

-----------------------------------------------------------------------------
(* Properties of the generated telemetry subscription.                     *)

WellFormedDelivery(d) == ParsesFrom(d.data, 0)
FailedDelivery(d) == ~ParsesFrom(d.data, 0) \/ d.callback_raises

\* C8: a payload whose parsing or whose callback fails is caught and logged in
\* the handler, nothing propagates to the transport, the subscription stays
\* registered, and every well-formed payload, also after a failure, is parsed
\* and passed to the callback.
C8_FailureIsolated ==
    /\ tescaped = 0
    /\ (tdelivered # <<>> => tsubs # <<>>)
    /\ tlogged = Cardinality({i \in 1..Len(tdelivered) : FailedDelivery(tdelivered[i])})
    /\ LET good == SelectSeq(tdelivered, WellFormedDelivery)
       IN  tpassed = [i \in 1..Len(good) |-> good[i].data]

C8_Witness ==
    /\ Len(tdelivered) = 3
    /\ tdelivered[1].data = PayloadBad
    /\ tdelivered[2].data = PayloadGood /\ tdelivered[2].callback_raises
    /\ tdelivered[3].data = PayloadGood /\ ~tdelivered[3].callback_raises
    /\ tpassed = <<PayloadGood, PayloadGood>>
    /\ tlogged = 2

-----------------------------------------------------------------------------
(* Properties of get_option_value.                                         *)

HasNumber(fields, key) == \E k \in 1..Len(fields) : fields[k].number = key

FirstWithNumber(fields, key) ==
    fields[CHOOSE k \in 1..Len(fields) :
              fields[k].number = key /\ \A j \in 1..(k - 1) : fields[j].number # key]

\* The offsets of odata at which a top-level field starts, and its end.
FieldStarts(fields) == {Len(SerializeToString(SubSeq(fields, 1, k))) : k \in 0..Len(fields)}

OptFinished == oresult.kind # "running"

\* C9: the call returns the payload of the first field whose number is the
\* key when that field is length-delimited, and no-value when no field has
\* that number or the first such field has another wire type.
C9_FirstFieldWithKey ==
    OptFinished =>
        IF HasNumber(ofields, okey) /\ FirstWithNumber(ofields, okey).wire_type = 2
        THEN oresult = Utf8Decode(FirstWithNumber(ofields, okey).payload)
        ELSE oresult = OptNone

\* C10: a field with another number is skipped whole, for each of the wire
\* types 0, 1, 2 and 5: the scan resumes at the next top-level tag, and a
\* value it returns is the payload of a top-level field with the key, never
\* bytes found inside a skipped payload.
C10_SkipsWholeFields ==
    /\ oresult.kind # "raised"
    /\ (oresult = OptRunning => opos \in FieldStarts(ofields))
    /\ (oresult.kind = "str" =>
            \E k \in 1..Len(ofields) :
                /\ ofields[k].number = okey
                /\ ofields[k].wire_type = 2
                /\ oresult = Utf8Decode(ofields[k].payload))

\* An iteration after which the loop goes on has moved the read position forward.
ScanAdvances == [][oresult' = OptRunning => opos' > opos]_vars

\* The call ends.
ScanTerminates == <>OptFinished

\* C30: the scan loop terminates on every finite byte buffer, every iteration
\* strictly advancing the read position (also for wire types 3, 4, 6 and 7),
\* so that the scan always ends by returning a value, returning no-value, or
\* failing on a truncated varint.  The formula is the way the scan ends.
C30_ScanEndsAsListed ==
    OptFinished =>
        \/ oresult.kind \in {"str", "none"}
        \/ oresult = OptRaised("IndexError")

-----------------------------------------------------------------------------
(* Properties of parse_options_file.                                       *)

\* The second-to-last dotted segment of a token, when it has one.
SecondToLastSegment(token) ==
    LET segments == Split(token, ".")
    IN  IF Len(segments) >= 2 THEN {segments[Len(segments) - 1]} ELSE {}

\* The names the directives of a sidecar text give: per non-blank, non-comment
\* line containing 'type:FT_POINTER', the second-to-last dotted segment of its
\* first token.
DirectiveNames(lines) ==
    UNION {SecondToLastSegment(SplitWhitespace(lines[i])[1]) :
             i \in {k \in 1..Len(lines) :
                       /\ Strip(lines[k]) # <<>>
                       /\ Head(Strip(lines[k])) # "#"
                       /\ Contains(lines[k], S_FT_POINTER)}}

SidecarRead == sdone /\ sfile # PyNone /\ ~fs_read.fails

\* Methods taking the message Msg of package pkg and of package alt.
MsgOfPkg == Method(S_SetLed, <<".", "p", "k", "g", ".">> \o N_Msg, U_Empty)
MsgOfAlt == Method(S_SetLed, <<".", "a", "l", "t", ".">> \o N_Msg, U_Empty)

\* C12: the registry built from a sidecar that was read holds exactly the
\* second-to-last dotted segments of the first tokens of its non-blank,
\* non-comment lines containing 'type:FT_POINTER'; the line
\* 'pkg.Msg.field type:FT_POINTER' makes the lookup of Msg true, a message
\* without directive looks up false, and Msg of either package shares the key.
C12_RegistryFromDirectives ==
    SidecarRead =>
        /\ sregistry = DirectiveNames(fs_lines)
        /\ (L_Msg \in Range(fs_lines) => req_needs_release(MsgOfPkg, sregistry))
        /\ (\A i \in 1..Len(fs_lines) : fs_lines[i] \in {L_Comment, L_Blank, L_MaxSize, L_Wildcard}) =>
               \A n \in {N_Msg, N_Led, N_Echo} : n \notin sregistry
        /\ req_needs_release(MsgOfPkg, sregistry) = req_needs_release(MsgOfAlt, sregistry)

\* A sidecar with one directive for alt.Msg and none for pkg.Msg was read:
\* the shared key marks pkg.Msg too.
C12_Witness ==
    /\ SidecarRead
    /\ L_AltMsg \in Range(fs_lines)
    /\ L_Msg \notin Range(fs_lines)
    /\ sregistry = {N_Msg}
    /\ req_needs_release(MsgOfPkg, sregistry)

\* C13: when the sidecar is missing, or reading it fails at any point, the
\* registry is empty, a warning was emitted and nothing was raised.
C13_FailureGivesEmptyRegistry ==
    (sdone /\ (sfile = PyNone \/ fs_read.fails)) =>
        /\ sregistry = {}
        /\ swarned
        /\ ~sraised

\* <path>.proto with the extension replaced by .options
WithOptionsExtension(p) ==
    IF EndsWith(p, S_dotproto)
    THEN SubSeq(p, 1, Len(p) - Len(S_dotproto)) \o S_dotoptions
    ELSE p

\* The candidates in the order of the search: the schema's own path when it
\* is absolute; the bare filename in the schema's directory when its path has
\* one; per search-path entry the full relative path, then the bare filename;
\* the bare filename in the current directory.
SidecarCandidates(name, paths) ==
    LET sidecar == WithOptionsExtension(name)
        bare == basename(sidecar)
    IN  (IF isabs(name) THEN <<sidecar>> ELSE <<>>)
        \o (IF dirname(name) # <<>> THEN <<join(dirname(name), bare)>> ELSE <<>>)
        \o [i \in 1..(2 * Len(paths)) |->
               IF i % 2 = 1 THEN join(paths[(i + 1) \div 2], sidecar)
               ELSE join(paths[i \div 2], bare)]
        \o <<bare>>

\* C15: the sidecar used is the first candidate of the search order that
\* exists; no candidate is used when none exists.
C15_FirstExistingCandidate ==
    sdone =>
        LET c == SidecarCandidates(sname, spaths)
        IN  IF \E i \in 1..Len(c) : exists(fs_exists, c[i])
            THEN \E i \in 1..Len(c) :
                    /\ sfile = c[i]
                    /\ exists(fs_exists, c[i])
                    /\ \A j \in 1..(i - 1) : ~exists(fs_exists, c[j])
            ELSE sfile = PyNone

\* Two different candidates exist, one in a search-path entry under the full
\* relative path and a later one; the earlier one was used.
C15_Witness ==
    /\ sdone
    /\ sname = P_rel
    /\ sfile = F_increl
    /\ F_inc \in fs_exists

-----------------------------------------------------------------------------
(* Properties of the generator plugins (SpecGen).                          *)

\* The numbers of the extensions of the request whose name ends in
\* "zenoh_key", whichever file declares them.
DeclaredKeyNumbers(request) ==
    UNION { { request.proto_file[i].extension[j].number :
                j \in { k \in 1..Len(request.proto_file[i].extension) :
                          EndsWith(request.proto_file[i].extension[k].name, S_zenoh_key) } } :
            i \in 1..Len(request.proto_file) }

AbsentFiles(request) ==
    { n \in request.file_to_generate :
        \A i \in 1..Len(request.proto_file) : request.proto_file[i].name # n }

UnitNames(emitter, name) ==
    LET base == SubSeq(basename(name), 1, Len(basename(name)) - Len(S_dotproto))
    IN  CASE emitter = "client" -> {base \o S_client_py}
          [] emitter = "server" -> {base \o S_server_h, base \o S_server_cpp}
          [] emitter = "ui" -> {S_service_gui}
          [] OTHER -> {}

RECURSIVE SnakeOfWords(_, _)
SnakeOfWords(name, i) ==
    IF i > Len(name) THEN <<>>
    ELSE (IF i > 1 /\ IsUpper(name[i]) THEN <<"_">> ELSE <<>>)
         \o <<LowerChar(name[i])>> \o SnakeOfWords(name, i + 1)

\* The client types and call operations a unit holds are those of the schema
\* file: one type per service, one operation per method, named from the
\* method name alone.
ClientUnitOf(unit, proto_file) ==
    /\ unit.name \in UnitNames("client", proto_file.name)
    /\ Len(unit.content.classes) = Len(proto_file.service)
    /\ \A s \in 1..Len(proto_file.service) :
          /\ unit.content.classes[s].name = proto_file.service[s].name \o S_Client
          /\ Len(unit.content.classes[s].methods) = Len(proto_file.service[s].method)
          /\ \A m \in 1..Len(proto_file.service[s].method) :
                unit.content.classes[s].methods[m].def_name
                    = SnakeOfWords(proto_file.service[s].method[m].name, 1)

\* C16: for every schema file generated, with N services and M methods in
\* total, the client emitter emits exactly N client types, one
\* "<Service>Client" per service, and exactly M call operations, one per
\* method, each named by the snake_case form of the method name alone.
C16_ClientTypesAndOperations ==
    gcur.emitter = "client" =>
        \A i \in 1..Len(grequest.proto_file) :
            grequest.proto_file[i].name \in grequest.file_to_generate =>
                \E u \in 1..Len(gcur.file) : ClientUnitOf(gcur.file[u], grequest.proto_file[i])


\* The value of the custom option a message carries at the given field
\* number, as a sequence of at most one text.
CustomOptionValue(options, number) ==
    LET at == SelectSeq(options, LAMBDA f : f.number = number /\ f.wire_type = 2)
    IN  IF at = <<>> THEN <<>>
        ELSE <<[i \in 1..Len(at[1].payload) |-> AsciiChar(at[1].payload[i])]>>

\* The topic suffix of a telemetry message: its custom option value, or
\* "/telemetry/" and the snake_case form of the name without "Telemetry".
TelemetrySuffix(msg, number) ==
    IF CustomOptionValue(msg.options, number) # <<>>
    THEN CustomOptionValue(msg.options, number)[1]
    ELSE S_slash_telemetry
         \o SnakeOfWords(SubSeq(msg.name, 1, Len(msg.name) - Len(S_Telemetry)), 1)

\* C18: for every message of a generated file whose name ends in
\* "Telemetry", the client emitter emits a subscriber whose topic is the
\* device id immediately followed by the message's custom option value when
\* it has one and by "/telemetry/<snake_case(base-name)>" otherwise.
C18_SubscriberTopic ==
    gcur.emitter = "client" =>
        \A i \in 1..Len(grequest.proto_file) :
            \A m \in 1..Len(grequest.proto_file[i].message_type) :
                LET msg == grequest.proto_file[i].message_type[m]
                    number == IF DeclaredKeyNumbers(grequest) = {} THEN 50001
                              ELSE CHOOSE n \in DeclaredKeyNumbers(grequest) : TRUE
                IN  (/\ grequest.proto_file[i].name \in grequest.file_to_generate
                     /\ EndsWith(msg.name, S_Telemetry))
                    => \E u \in 1..Len(gcur.file) :
                          \E k \in 1..Len(gcur.file[u].content.subscribers) :
                              LET sub == gcur.file[u].content.subscribers[k]
                              IN  /\ sub.cls = msg.name
                                  /\ SubscriberKeyExpr(sub, S_dev1)
                                        = S_dev1 \o TelemetrySuffix(msg, number)


\* The method's input type names a message the schema file declares.
InputResolves(proto_file, method) ==
    \E m \in 1..Len(proto_file.message_type) :
        method.input_type
            = (IF proto_file.package = <<>> THEN <<>> ELSE <<".">> \o proto_file.package)
              \o <<".">> \o proto_file.message_type[m].name

\* What a unit holds for the method: for the client emitter a call without
\* named field parameters that assigns no field; for the UI emitter a control
\* group without input widgets whose call takes no arguments.
ZeroArgumentShape(emitter, unit, s, m) ==
    IF emitter = "client"
    THEN /\ s \in 1..Len(unit.content.classes)
         /\ m \in 1..Len(unit.content.classes[s].methods)
         /\ unit.content.classes[s].methods[m].params = <<>>
         /\ unit.content.classes[s].methods[m].field_assigns = <<>>
    ELSE /\ s \in 1..Len(unit.content.services)
         /\ m \in 1..Len(unit.content.services[s].groups)
         /\ unit.content.services[s].groups[m].inputs = <<>>
         /\ unit.content.services[s].groups[m].call_func = "method"

\* C19: when the input type of a method of a generated file resolves to no
\* message of that file, the run does not abort, and the unit of the file
\* holds the zero-argument shape for the method: in the client emitter a call
\* with no field parameters, in the UI emitter a control group with no input
\* widgets that invokes the call with no arguments.
C19_UnresolvedInputZeroArguments ==
    gcur.emitter \in {"client", "ui"} =>
        \A i \in 1..Len(grequest.proto_file) :
            \A s \in 1..Len(grequest.proto_file[i].service) :
                \A m \in 1..Len(grequest.proto_file[i].service[s].method) :
                    (/\ grequest.proto_file[i].name \in grequest.file_to_generate
                     /\ ~InputResolves(grequest.proto_file[i],
                                       grequest.proto_file[i].service[s].method[m]))
                    => /\ gcur.raised = "none"
                       /\ \E u \in 1..Len(gcur.file) :
                             /\ gcur.file[u].name
                                   \in UnitNames(gcur.emitter, grequest.proto_file[i].name)
                             /\ gcur.emitter = "ui" =>
                                   gcur.file[u].content.base \o S_dotproto
                                       = basename(grequest.proto_file[i].name)
                             /\ ZeroArgumentShape(gcur.emitter, gcur.file[u], s, m)


CallSiteMatches(ui_service, group, class, operation) ==
    /\ ui_service.cls = class.name
    /\ group.call_on = ui_service.client
    /\ group.method_snake = operation.def_name
    /\ group.kwargs = [i \in 1..Len(operation.params) |-> operation.params[i].name]
    /\ (group.call_func = "method") = (operation.params = <<>>)
    /\ (group.unpack = "marker")
          = (AfterCall(operation.call, RpcResult(FALSE, <<>>, S_NoReply)).arity = 1)
    /\ (group.unpack = "pair")
          = (AfterCall(operation.call, RpcResult(FALSE, <<>>, S_NoReply)).arity = 2)

\* C21: for every method of a schema file both emitters generated for, the
\* call site the UI emitter emits matches the call the client emitter emits:
\* same operation name, on the client of the method's service, one keyword
\* argument per named parameter, a single marker exactly when the client
\* returns a single marker and a pair otherwise.
C21_UiCallSiteMatchesClient ==
    (gprev.emitter = "client" /\ gcur.emitter = "ui") =>
        \A u \in 1..Len(gprev.file) : \A v \in 1..Len(gcur.file) :
            gprev.file[u].name = gcur.file[v].content.base \o S_client_py =>
                /\ Len(gcur.file[v].content.services) = Len(gprev.file[u].content.classes)
                /\ \A s \in 1..Len(gcur.file[v].content.services) :
                      /\ Len(gcur.file[v].content.services[s].groups)
                            = Len(gprev.file[u].content.classes[s].methods)
                      /\ \A m \in 1..Len(gcur.file[v].content.services[s].groups) :
                            CallSiteMatches(gcur.file[v].content.services[s],
                                            gcur.file[v].content.services[s].groups[m],
                                            gprev.file[u].content.classes[s],
                                            gprev.file[u].content.classes[s].methods[m])

\* The client emitter, then the UI emitter, ran on service.proto and
\* two.proto: call sites with keyword arguments and without, for a method
\* returning a pair and for methods returning a single marker.
C21_Witness ==
    /\ gprev.emitter = "client"
    /\ gcur.emitter = "ui"
    /\ Len(gprev.file) = 2
    /\ Len(gcur.file) = 2
    /\ gcur.file[1].content.services[1].groups[1].unpack = "pair"
    /\ gcur.file[1].content.services[1].groups[3].unpack = "marker"
    /\ gcur.file[2].content.services[2].groups[1].kwargs = <<>>


\* C29: within one generation response all generated units have pairwise
\* distinct filenames, for every emitter and every set of requested files.
C29_UnitNamesDistinct ==
    gcur.emitter # "none" =>
        \A i, j \in 1..Len(gcur.file) :
            gcur.file[i].name = gcur.file[j].name => i = j

-----------------------------------------------------------------------------
(* Properties of the generated register_handlers (SpecRegister).           *)

\* C22: register_handlers attempts exactly one registration per method of
\* the service, keyed by the service name and the method name, attempts all
\* of them whatever the earlier ones returned, and returns true exactly when
\* every registration succeeded.
C22_RegistersEveryMethod ==
    rret # "none" =>
        /\ Len(rattempts) = Len(rservice.method)
        /\ \A j \in 1..Len(rservice.method) :
              /\ rattempts[j].service_name = rservice.name
              /\ rattempts[j].method_name = rservice.method[j].name
        /\ (rret = "true") = (\A j \in 1..Len(rattempts) : rattempts[j].ok)

\* register_handlers returned false after a first registration that failed
\* and two later ones that succeeded.
C22_Witness ==
    /\ rret = "false"
    /\ Len(rattempts) = 3
    /\ ~rattempts[1].ok
    /\ rattempts[2].ok
    /\ rattempts[3].ok


-----------------------------------------------------------------------------
(* Properties of the subscriptions (SpecPage, SpecLog).                    *)

\* C23: after any runs of update_subscriptions of a page, the subscribers
\* declared through the page's subscriber client are exactly one on the
\* device-log topic and one per Telemetry message, all for the device id of
\* the most recent run.
C23_SubscriptionsOfLastRun ==
    pstage \in {"ready", "failed"} =>
        /\ Cardinality(psubs) = 1 + Len(TelemetryMessages(pschema))
        /\ {s.key_expr : s \in psubs}
             = {plast.device_id \o S_slash_log}
               \cup {plast.device_id \o PageSuffixes(pschema)[i] :
                        i \in 1..Len(PageSuffixes(pschema))}

\* C28: after LogSubscriber.unsubscribe returns, none of the subscribers
\* that LogSubscriber declared is still declared.
C28_NothingLeftAfterUnsubscribe ==
    llast = "unsubscribe" => \A s \in psubs : s.sub_id \notin lcreated


-----------------------------------------------------------------------------
(* Properties of build.py (SpecBuild).                                     *)

\* C24: in a run of build.py with --proto-only, whatever the other flags,
\* build, NVS erase, flash and monitor are never invoked: protobuf code
\* generation is the only step that runs.
C24_ProtoOnlyRunsGenerationOnly ==
    bargs.proto_only => \A i \in 1..Len(bcalls) : bcalls[i] = "generate_proto"

\* C25: in every handler invocation each of the request and the response is
\* released at most once, on whichever exit path is taken: no pb_release is
\* executed twice for the same message.
C25_ReleasedAtMostOnce ==
    \A i, j \in DOMAIN hreleased : hreleased[i] = hreleased[j] => i = j

C25_Witness ==
    /\ HandlerDone /\ hencoded = "fail" /\ hret = "ENCODE_ERROR"
    /\ hreleased = <<"request", "response">>

-----------------------------------------------------------------------------
(* Properties of the UI execute actions (SpecExecute).                     *)

\* C26: an RPC started by an execute action is sent to the key expression of
\* the device id the action set at its start, whatever other execute actions
\* do between its set_device_id and the moment its call makes the key
\* expression on the worker thread.
C26_CallUsesDeviceIdOfItsAction ==
    \A t \in ExecuteTasks :
        xtask[t].stage \in {"called", "done"} =>
            xtask[t].key = KeyExpr(xtask[t].dev,
                                   PageGroups(xpage)[xtask[t].group].service,
                                   PageGroups(xpage)[xtask[t].group].method)

\* C27: the execute action of every control group reads only the input
\* widgets of its own method and writes only its own result area, also when
\* two methods of the schema have the same snake_case name.
C27_GroupUsesOwnWidgets ==
    \A t \in ExecuteTasks :
        xtask[t].stage # "idle" =>
            /\ xtask[t].read \subseteq {xtask[t].group}
            /\ xtask[t].wrote \subseteq {xtask[t].group}

====
